---- MODULE Spec2Model ----
(***************************************************************************)
(* Parallax: multi-agent UI-automation pipeline.                           *)
(*                                                                         *)
(* The module models, from the Python sources,                             *)
(*   - the constitution framework (core/constitution.py),                  *)
(*   - the agent gates and the failure store,                              *)
(*   - the Observer log (agents/observer.py),                              *)
(*   - the Archivist dataset writer (agents/archivist.py, store/dataset.py)*)
(*   - the two orchestrators (runner/cli.py, web/server.py).               *)
(* Each part has its own specification over the shared variables; the      *)
(* variables of the other parts stay at their initial values.              *)
(***************************************************************************)
EXTENDS Integers, Sequences, FiniteSets, TLC

VARIABLES
    \* ---- constitution framework (AgentConstitution) ----
    c_rules,        \* the rules handed to AgentConstitution.__init__
    c_outcome,      \* what each rule's validator does when called
    c_report,       \* result of the validate call, or NoCall
    c_must,         \* result of the must_pass call, or NoCall
    \* ---- agent gates and the failure store ----
    g_store,        \* FailureStore file: the sequence of lines written
    g_configured,   \* the agent was given a failure store
    g_last,         \* what the last gate call did
    \* ---- Observer ----
    o_states,       \* Observer._states
    o_idx,          \* Observer._idx
    o_save_dir,     \* Observer._save_dir is set
    o_disk,         \* the screenshot files present in the save directory
    o_last,         \* what the last observe call did
    \* ---- Archivist / DatasetStore ----
    a_data,         \* per (app, slug) directory: steps.jsonl and dataset.db
    a_calls,        \* per (app, slug): the inputs of the write_states calls so far
    a_last,         \* what the last write_states call did
    \* ---- orchestrator (run._main / run_task) ----
    front,          \* "cli" (runner/cli.py) or "web" (web/server.py)
    heal_attempts,  \* max(0, int(navigation.self_heal_attempts))
    cfg_budget,     \* navigation.action_budget
    user_data_dir,  \* playwright.user_data_dir is set (persistent context)
    shutdown,       \* shutdown_event.is_set()
    pc,             \* position of the orchestrator
    attempt,        \* loop variable of the attempt loop
    att,            \* the running attempt
    exc,            \* the exception in flight
    start_url_current,
    action_budget_override,
    plan_context_overrides,
    failure_history,
    log,            \* one record per attempt that ended
    outcome,        \* how the run ended
    \* ---- plans: Interpreter.plan's validation and apply_site_overrides ----
    pl_plan,        \* the ExecutionPlan the provider generated
    pl_start_url,   \* the start URL of the run
    pl_last,        \* what the last operation on the plan did
    \* ---- completion validator: slugs ----
    sl_text,        \* the text handed to _slugify_text
    sl_last,        \* what the last _slugify_text call returned
    \* ---- completion validator ----
    cv_plan,        \* the steps of the plan handed to validate_completion
    cv_states,      \* the captured states handed to it
    cv_min_targets, \* its min_targets argument
    cv_last,        \* what the last validate_completion call did
    \* ---- failure store with concurrent appenders and a reader ----
    fs_initial,     \* the lines of constitution_failures.jsonl at the start
    fs_file,        \* its lines now
    fs_saved,       \* the non-empty reports written so far, in write order
    fs_app,         \* per appender: where it is in save_failure, and its report
    fs_reader,      \* the get_failures call: arguments, position, result
    \* ---- the plan context of an attempt ----
    plan_context,   \* the context handed to interpreter.plan in this attempt
    \* ---- alternate-viewport screenshots ----
    vp_size,        \* page.viewport_size
    vp_redact,      \* capture.redact is enabled and has selectors
    vp_last,        \* what the last _screenshot_tablet / _screenshot_mobile did
    \* ---- strategy generator ----
    sg_strategies,  \* StrategyGenerator._strategies: cache key -> list of strategies
    sg_returned,    \* the list the last generate / get call returned, and its arguments
    sg_last,        \* what the last call did
    \* ---- the metrics exporter guard ----
    ms_started,      \* _METRICS_SERVER_STARTED
    ms_lock,         \* the thread holding _METRICS_LOCK, or None
    ms_thread,       \* per thread: where it is in ensure_metrics_server, its port, its calls so far
    ms_starts,       \* the start_http_server invocations so far, in order
    \* ---- planner providers ----
    llm_req,         \* the plan request in hand: provider, context, where it is
    llm_hist,        \* what each LLM call of the request met, in order
    llm_result,      \* what generate_plan gave the caller: a plan or an error
    \* ---- locator resolution ----
    lr_step,         \* the step whose element is looked for
    lr_page,         \* per strategy: what its candidate locators match on the page
    lr_last,         \* what the last resolution gave: a locator or an error
    \* ---- heuristic significance ----
    sig_previous_url,  \* the url of Detectors._previous_state, None before the first capture
    sig_in,          \* the arguments of the next _determine_significance call
    sig_out          \* what the last call returned, with its arguments

conVars == <<c_rules, c_outcome, c_report, c_must>>
gateVars == <<g_store, g_configured, g_last>>
obsVars == <<o_states, o_idx, o_save_dir, o_disk, o_last>>
archVars == <<a_data, a_calls, a_last>>
runVars == <<front, heal_attempts, cfg_budget, user_data_dir, shutdown, pc, attempt, att,
             exc, start_url_current, action_budget_override, plan_context_overrides,
             failure_history, log, outcome>>
planVars == <<pl_plan, pl_start_url, pl_last>>
oldVars == <<conVars, gateVars, obsVars, archVars, runVars>>
slugVars == <<sl_text, sl_last>>
cvVars == <<cv_plan, cv_states, cv_min_targets, cv_last>>
storeVars == <<fs_initial, fs_file, fs_saved, fs_app, fs_reader>>
ctxVars == <<plan_context>>
viewVars == <<vp_size, vp_redact, vp_last>>
stratVars == <<sg_strategies, sg_returned, sg_last>>
metVars == <<ms_started, ms_lock, ms_thread, ms_starts>>
llmVars == <<llm_req, llm_hist, llm_result>>
locVars == <<lr_step, lr_page, lr_last>>
sigVars == <<sig_previous_url, sig_in, sig_out>>
newVars == <<planVars, slugVars, cvVars, storeVars, ctxVars, viewVars, stratVars, metVars,
            llmVars, locVars, sigVars>>
vars == <<conVars, gateVars, obsVars, archVars, runVars, newVars>>

NoCall == [kind |-> "none"]

(***************************************************************************)
(* Constitution framework: core/constitution.py                            *)
(***************************************************************************)

\* ValidationLevel
CRITICAL == "critical"
WARNING == "warning"
INFO == "info"
ValidationLevel == {CRITICAL, WARNING, INFO}

\* What a validator does when called: returns (True, ..), returns (False, ..),
\* or raises an Exception.
Behaviour == {"pass", "fail", "raise"}

ValidationRule(name, level, enabled) == [name |-> name, level |-> level, enabled |-> enabled]

\* ValidationFailure; reason is the validator's reason or the synthetic
\* "Validator error: ..." text.
ValidationFailure(rule_name, level, reason) ==
    [rule_name |-> rule_name, level |-> level, reason |-> reason]

\* AgentConstitution.__init__: self.rules = [r for r in rules if r.enabled]
EnabledRules(rules) == SelectSeq(rules, LAMBDA r : r.enabled)

\* validate, body of the for loop when the validator returned not passed
RecordFailure(rule, acc) ==
    IF rule.level = CRITICAL
    THEN [acc EXCEPT !.failures = Append(@, ValidationFailure(rule.name, rule.level, "reason"))]
    ELSE IF rule.level = WARNING
    THEN [acc EXCEPT !.warnings = Append(@, ValidationFailure(rule.name, rule.level, "reason"))]
    ELSE acc

\* A validator error filed under the rule's own level (not what the code does).
RecordValidatorError_ByLevel(rule, acc) ==
    IF rule.level = CRITICAL
    THEN [acc EXCEPT !.failures = Append(@, ValidationFailure(rule.name, rule.level, "validator_error"))]
    ELSE [acc EXCEPT !.warnings = Append(@, ValidationFailure(rule.name, rule.level, "validator_error"))]

\* validate, the except branch: a raising validator is a WARNING
RecordValidatorError(rule, acc) ==
    [acc EXCEPT !.warnings = Append(@, ValidationFailure(rule.name, WARNING, "validator_error"))]

RECURSIVE ValidateLoop(_, _, _)
ValidateLoop(rules, out, acc) ==
    IF rules = <<>> THEN acc
    ELSE LET rule == Head(rules)
             acc2 == IF out[rule.name] = "raise" THEN RecordValidatorError(rule, acc)
                     ELSE IF out[rule.name] = "fail" THEN RecordFailure(rule, acc)
                     ELSE acc
         IN ValidateLoop(Tail(rules), out, acc2)

\* AgentConstitution.validate: returns a ConstitutionReport
validate(agent, rules, out) ==
    LET acc == ValidateLoop(EnabledRules(rules), out, [failures |-> <<>>, warnings |-> <<>>])
    IN [kind |-> "report", agent |-> agent, passed |-> (Len(acc.failures) = 0),
        failures |-> acc.failures, warnings |-> acc.warnings]

\* AgentConstitution.must_pass: True, or ConstitutionViolation(failures)
must_pass(agent, rules, out) ==
    LET report == validate(agent, rules, out)
    IN IF ~report.passed
       THEN [kind |-> "ConstitutionViolation", agent |-> agent, failures |-> report.failures]
       ELSE [kind |-> "True"]

(***************************************************************************)
(* Idle values: a specification leaves the other parts' variables here.    *)
(***************************************************************************)
ConIdle == c_rules = <<>> /\ c_outcome = <<>> /\ c_report = NoCall /\ c_must = NoCall
GateIdle == g_store = <<>> /\ g_configured = TRUE /\ g_last = NoCall
ObsIdle == o_states = <<>> /\ o_idx = 0 /\ o_save_dir = TRUE /\ o_disk = {} /\ o_last = NoCall
ArchIdle == a_data = <<>> /\ a_calls = <<>> /\ a_last = NoCall
RunIdle ==
    /\ front = "cli" /\ heal_attempts = 0 /\ cfg_budget = 1 /\ user_data_dir = FALSE
    /\ shutdown = FALSE /\ pc = "idle" /\ attempt = 0 /\ att = NoCall /\ exc = NoCall
    /\ start_url_current = "https://example.com" /\ action_budget_override = 0
    /\ plan_context_overrides = <<>> /\ failure_history = <<>> /\ log = <<>>
    /\ outcome = NoCall

PlanIdle == pl_plan = <<>> /\ pl_start_url = "" /\ pl_last = NoCall

SlugIdle == sl_text = <<>> /\ sl_last = NoCall
StratIdle == sg_strategies = <<>> /\ sg_returned = NoCall /\ sg_last = NoCall
ViewIdle == vp_size = "None" /\ vp_redact = FALSE /\ vp_last = NoCall
CtxIdle == plan_context = NoCall
StoreIdle ==
    /\ fs_initial = <<>> /\ fs_file = <<>> /\ fs_saved = <<>>
    /\ fs_app = <<>> /\ fs_reader = NoCall
CvIdle == cv_plan = <<>> /\ cv_states = <<>> /\ cv_min_targets = 1 /\ cv_last = NoCall

\* The parts added after the orchestrator, all but part c, at their idle values
MetIdle == ms_started = FALSE /\ ms_lock = "None" /\ ms_thread = <<>> /\ ms_starts = <<>>

LlmIdle == llm_req = NoCall /\ llm_hist = <<>> /\ llm_result = NoCall

LocIdle == lr_step = NoCall /\ lr_page = <<>> /\ lr_last = NoCall

SigIdle == sig_previous_url = "None" /\ sig_in = NoCall /\ sig_out = NoCall

NewIdle(c) ==
    /\ IF c = "plan" THEN TRUE ELSE PlanIdle
    /\ IF c = "slug" THEN TRUE ELSE SlugIdle
    /\ IF c = "cv" THEN TRUE ELSE CvIdle
    /\ IF c = "store" THEN TRUE ELSE StoreIdle
    /\ IF c = "ctx" THEN TRUE ELSE CtxIdle
    /\ IF c = "view" THEN TRUE ELSE ViewIdle
    /\ IF c = "strat" THEN TRUE ELSE StratIdle
    /\ IF c = "met" THEN TRUE ELSE MetIdle
    /\ IF c = "llm" THEN TRUE ELSE LlmIdle
    /\ IF c = "loc" THEN TRUE ELSE LocIdle
    /\ IF c = "sig" THEN TRUE ELSE SigIdle

\* A step of part c leaves every other part alone
KeepOthers(c) ==
    /\ UNCHANGED oldVars
    /\ IF c = "plan" THEN TRUE ELSE UNCHANGED planVars
    /\ IF c = "slug" THEN TRUE ELSE UNCHANGED slugVars
    /\ IF c = "cv" THEN TRUE ELSE UNCHANGED cvVars
    /\ IF c = "store" THEN TRUE ELSE UNCHANGED storeVars
    /\ IF c = "ctx" THEN TRUE ELSE UNCHANGED ctxVars
    /\ IF c = "view" THEN TRUE ELSE UNCHANGED viewVars
    /\ IF c = "strat" THEN TRUE ELSE UNCHANGED stratVars
    /\ IF c = "met" THEN TRUE ELSE UNCHANGED metVars
    /\ IF c = "llm" THEN TRUE ELSE UNCHANGED llmVars
    /\ IF c = "loc" THEN TRUE ELSE UNCHANGED locVars
    /\ IF c = "sig" THEN TRUE ELSE UNCHANGED sigVars

(***************************************************************************)
(* Specification of the constitution framework: any rule set, any          *)
(* validator behaviour; validate and must_pass are each called once.       *)
(***************************************************************************)
MaxRules == 3

RuleLabel == <<"rule1", "rule2", "rule3", "rule4", "rule5", "rule6">>
RuleName(i) == RuleLabel[i]
RuleNames == {RuleName(i) : i \in 1..MaxRules}

RuleSets ==
    UNION {
        { [i \in 1..n |-> ValidationRule(RuleName(i), lv[i], en[i])] :
            lv \in [1..n -> ValidationLevel], en \in [1..n -> BOOLEAN] }
        : n \in 0..MaxRules }

ConInit ==
    /\ c_rules \in RuleSets
    /\ c_outcome \in [RuleNames -> Behaviour]
    /\ c_report = NoCall
    /\ c_must = NoCall
    /\ GateIdle /\ ObsIdle /\ ArchIdle /\ RunIdle /\ NewIdle("none")

CallValidate ==
    /\ c_report = NoCall
    /\ c_report' = validate("agent", c_rules, c_outcome)
    /\ UNCHANGED <<c_rules, c_outcome, c_must, gateVars, newVars, obsVars, archVars, runVars>>

CallMustPass ==
    /\ c_must = NoCall
    /\ c_must' = must_pass("agent", c_rules, c_outcome)
    /\ UNCHANGED <<c_rules, c_outcome, c_report, gateVars, newVars, obsVars, archVars, runVars>>

ConNext == CallValidate \/ CallMustPass

SpecConstitution == ConInit /\ [][ConNext]_vars

\* The rules of c_rules that are enabled, CRITICAL and whose validator returns
\* not passed, in rule order.
CriticalMisses ==
    SelectSeq(c_rules, LAMBDA r : r.enabled /\ r.level = CRITICAL /\ c_outcome[r.name] = "fail")

NamesOf(fs) == [i \in 1..Len(fs) |-> fs[i].rule_name]
RuleNamesOf(rs) == [i \in 1..Len(rs) |-> rs[i].name]

\* C3: for any rule set and any validator behaviour (pass, fail, raise),
\* validate returns a report (it does not raise); the report's passed flag is
\* true exactly when its critical-failure list is empty, and that list is the
\* enabled CRITICAL rules whose validator returned not passed; a validator that
\* raises is recorded as a WARNING-level failure whatever its rule's level and
\* never as a critical failure; must_pass raises ConstitutionViolation carrying
\* all critical failures exactly when passed is false and otherwise returns True.
C3_ValidateAndMustPass ==
    /\ c_report # NoCall =>
        /\ c_report.kind = "report"
        /\ c_report.passed <=> (c_report.failures = <<>>)
        /\ NamesOf(c_report.failures) = RuleNamesOf(CriticalMisses)
        /\ \A i \in 1..Len(c_rules) :
             (c_rules[i].enabled /\ c_outcome[c_rules[i].name] = "raise") =>
                /\ \E j \in 1..Len(c_report.warnings) :
                     /\ c_report.warnings[j].rule_name = c_rules[i].name
                     /\ c_report.warnings[j].level = WARNING
                     /\ c_report.warnings[j].reason = "validator_error"
                /\ \A j \in 1..Len(c_report.failures) :
                     c_report.failures[j].rule_name # c_rules[i].name
    /\ c_must # NoCall =>
        /\ (c_must.kind = "ConstitutionViolation") <=> (CriticalMisses # <<>>)
        /\ c_must.kind = "ConstitutionViolation" =>
             NamesOf(c_must.failures) = RuleNamesOf(CriticalMisses)
        /\ c_must.kind # "ConstitutionViolation" => c_must.kind = "True"
        /\ c_report # NoCall => ((c_must.kind = "ConstitutionViolation") <=> ~c_report.passed)

\* C3 witness: both calls made on a rule set with two critical misses and a
\* raising validator of a CRITICAL rule; must_pass raised with both misses.
C3_Witness ==
    /\ c_report # NoCall /\ c_must # NoCall
    /\ c_must.kind = "ConstitutionViolation"
    /\ Len(c_must.failures) = 2
    /\ \E i \in 1..Len(c_rules) :
         c_rules[i].enabled /\ c_rules[i].level = CRITICAL /\ c_outcome[c_rules[i].name] = "raise"

(***************************************************************************)
(* Failure store and the agents' constitution gates                        *)
(***************************************************************************)

\* ConstitutionReport.to_dict + json.dumps: the line written for a report
to_dict(report) ==
    [agent |-> report.agent, passed |-> report.passed,
     failures |-> NamesOf(report.failures), warnings |-> NamesOf(report.warnings)]

\* FailureStore.save_failure: one appended line, nothing for an empty report
save_failure(store, report) ==
    IF report.failures = <<>> /\ report.warnings = <<>>
    THEN store
    ELSE Append(store, to_dict(report))

\* The rule catalogs of agents/constitutions.py
INTERPRETER_CONSTITUTION ==
    << ValidationRule("plan_structure", CRITICAL, TRUE),
       ValidationRule("plan_non_empty", CRITICAL, TRUE),
       ValidationRule("plan_step_validity", CRITICAL, TRUE) >>

NAVIGATOR_CONSTITUTION ==
    << ValidationRule("navigation_success", CRITICAL, TRUE),
       ValidationRule("action_budget", WARNING, TRUE),
       ValidationRule("no_auth_redirects", WARNING, TRUE) >>

OBSERVER_CONSTITUTION ==
    << ValidationRule("state_captured", CRITICAL, TRUE),
       ValidationRule("screenshot_quality", CRITICAL, TRUE),
       ValidationRule("state_description", WARNING, TRUE) >>

ARCHIVIST_CONSTITUTION ==
    << ValidationRule("dataset_created", CRITICAL, TRUE),
       ValidationRule("dataset_files", CRITICAL, TRUE),
       ValidationRule("minimum_states", CRITICAL, TRUE),
       ValidationRule("dataset_data_integrity", WARNING, TRUE) >>

RuleNameSet(rules) == {rules[i].name : i \in 1..Len(rules)}

\* A gate that raises on a critical failure without saving the report first.
gate_RaiseFirst(agent, rules, out, store, configured) ==
    LET report == validate(agent, rules, out)
    IN IF ~report.passed
       THEN [report |-> report, store |-> store, events |-> <<"raise">>,
             result |-> must_pass(agent, rules, out)]
       ELSE IF report.warnings # <<>>
       THEN [report |-> report,
             store |-> IF configured THEN save_failure(store, report) ELSE store,
             events |-> IF configured THEN <<"save_failure">> ELSE <<>>,
             result |-> [kind |-> "returned"]]
       ELSE [report |-> report, store |-> store, events |-> <<>>,
             result |-> [kind |-> "returned"]]

\* The gate every agent runs on its output (Interpreter.plan, Observer.observe,
\* Archivist.write_states share the text): validate; on not passed save the
\* report, then must_pass raises; on warnings save the report and go on.
\* The validators are called again by must_pass with the same arguments, with
\* no suspension point in between, so they behave the same both times.
gate(agent, rules, out, store, configured) ==
    LET report == validate(agent, rules, out)
    IN IF ~report.passed
       THEN LET mp == must_pass(agent, rules, out)
            IN [report |-> report,
                store |-> IF configured THEN save_failure(store, report) ELSE store,
                events |-> (IF configured THEN <<"save_failure">> ELSE <<>>)
                           \o (IF mp.kind = "ConstitutionViolation" THEN <<"raise">> ELSE <<>>),
                result |-> IF mp.kind = "ConstitutionViolation" THEN mp ELSE [kind |-> "returned"]]
       ELSE IF report.warnings # <<>>
       THEN [report |-> report,
             store |-> IF configured THEN save_failure(store, report) ELSE store,
             events |-> IF configured THEN <<"save_failure">> ELSE <<>>,
             result |-> [kind |-> "returned"]]
       ELSE [report |-> report, store |-> store, events |-> <<>>,
             result |-> [kind |-> "returned"]]

\* Navigator.finalize(plan, context): the Executor's gate. Its source is not
\* among the files; the tests of the navigator constitution fix its behaviour:
\* a critical failure is saved and raised, warnings are saved and returned
\* in a report with passed = True.
Navigator_finalize(out, store, configured) ==
    LET report == validate("A2_Navigator", NAVIGATOR_CONSTITUTION, out)
    IN IF report.failures # <<>>
       THEN [report |-> report,
             store |-> IF configured THEN save_failure(store, report) ELSE store,
             events |-> (IF configured THEN <<"save_failure">> ELSE <<>>) \o <<"raise">>,
             result |-> [kind |-> "ConstitutionViolation", agent |-> "A2_Navigator",
                         failures |-> report.failures]]
       ELSE [report |-> report,
             store |-> IF configured /\ report.warnings # <<>>
                       THEN save_failure(store, report) ELSE store,
             events |-> IF configured /\ report.warnings # <<>>
                        THEN <<"save_failure">> ELSE <<>>,
             result |-> [kind |-> "returned"]]

(***************************************************************************)
(* Specification of the gates: the four agents run their gate, in any      *)
(* order, on outputs for which each validator may pass, fail or raise; the *)
(* failure store is one file, shared, and may hold lines of earlier runs.  *)
(***************************************************************************)
MaxGateCalls == 1

\* A line left in the file by an earlier run.
EarlierLine ==
    [agent |-> "A2_Navigator", passed |-> TRUE, failures |-> <<>>,
     warnings |-> <<"action_budget">>]

GateInit ==
    /\ g_store \in {<<>>, <<EarlierLine>>}
    /\ g_configured \in BOOLEAN
    /\ g_last = NoCall
    /\ ConIdle /\ ObsIdle /\ ArchIdle /\ RunIdle /\ NewIdle("none")

GateCalls == IF g_last = NoCall THEN 0 ELSE g_last.calls
GateRoom == GateCalls < MaxGateCalls

GateDone(agent, g) ==
    /\ g_store' = g.store
    /\ g_last' = [kind |-> "gate", calls |-> GateCalls + 1, agent |-> agent, report |-> g.report,
                  before |-> g_store, events |-> g.events, result |-> g.result]
    /\ UNCHANGED <<g_configured, conVars, newVars, obsVars, archVars, runVars>>

\* Interpreter.plan, from the validation of the plan on
Interpreter_plan_gate ==
    /\ GateRoom
    /\ \E out \in [RuleNameSet(INTERPRETER_CONSTITUTION) -> Behaviour] :
         GateDone("A1_Interpreter",
                  gate("A1_Interpreter", INTERPRETER_CONSTITUTION, out, g_store, g_configured))

\* Observer.observe, from the validation of the captured state on
Observer_observe_gate ==
    /\ GateRoom
    /\ \E out \in [RuleNameSet(OBSERVER_CONSTITUTION) -> Behaviour] :
         GateDone("A3_Observer",
                  gate("A3_Observer", OBSERVER_CONSTITUTION, out, g_store, g_configured))

\* Archivist.write_states, from the validation of the dataset on
Archivist_write_states_gate ==
    /\ GateRoom
    /\ \E out \in [RuleNameSet(ARCHIVIST_CONSTITUTION) -> Behaviour] :
         GateDone("A4_Archivist",
                  gate("A4_Archivist", ARCHIVIST_CONSTITUTION, out, g_store, g_configured))

\* Navigator.finalize
Navigator_finalize_gate ==
    /\ GateRoom
    /\ \E out \in [RuleNameSet(NAVIGATOR_CONSTITUTION) -> Behaviour] :
         GateDone("A2_Navigator", Navigator_finalize(out, g_store, g_configured))

GateNext ==
    \/ Interpreter_plan_gate
    \/ Observer_observe_gate
    \/ Archivist_write_states_gate
    \/ Navigator_finalize_gate

SpecGates == GateInit /\ [][GateNext]_vars

\* C4: at every agent gate with a failure store configured: a report with at
\* least one critical failure is appended to the failure store (as one line,
\* after the lines already there) before ConstitutionViolation is raised; a
\* report with only warnings is appended and the agent returns normally with
\* passed = true; a report with neither failures nor warnings is not appended.
C4_GateSavesThenRaises ==
    (g_last # NoCall /\ g_configured) =>
        LET r == g_last.report
            n == Len(g_last.before)
        IN /\ r.failures # <<>> =>
                /\ g_store = Append(g_last.before, to_dict(r))
                /\ g_last.events = <<"save_failure", "raise">>
                /\ g_last.result.kind = "ConstitutionViolation"
           /\ (r.failures = <<>> /\ r.warnings # <<>>) =>
                /\ g_store = Append(g_last.before, to_dict(r))
                /\ g_last.events = <<"save_failure">>
                /\ g_last.result.kind = "returned"
                /\ r.passed
           /\ (r.failures = <<>> /\ r.warnings = <<>>) =>
                /\ g_store = g_last.before
                /\ g_last.events = <<>>
                /\ g_last.result.kind = "returned"

\* C4 witness: with a store configured, a gate raised after appending a report
\* with a critical failure to a store that already held a warnings-only report
\* of another gate.
C4_Witness ==
    /\ g_last # NoCall /\ g_configured
    /\ g_last.result.kind = "ConstitutionViolation"
    /\ g_last.report.failures # <<>>
    /\ Len(g_store) >= 2
    /\ g_store[Len(g_store)].passed = FALSE
    /\ g_store[Len(g_store) - 1].passed = TRUE
    /\ g_store[Len(g_store) - 1].agent # g_store[Len(g_store)].agent

(***************************************************************************)
(* Observer: agents/observer.py, with the Observer rules of                *)
(* agents/constitutions.py                                                 *)
(***************************************************************************)

\* str.strip().lower() on the descriptions the model uses
StripLower(d) ==
    CASE d = "" -> ""
      [] d = "  " -> ""
      [] d = "UI state" -> "ui state"
      [] d = " UI State (stable) " -> "ui state (stable)"
      [] d = "Home page | Dialog open" -> "home page | dialog open"
      [] OTHER -> d

Descriptions == {"", "  ", "UI state", " UI State (stable) ", "Home page | Dialog open"}
Signatures == {"", "9f86d081884c7d65"}
Viewports == {"desktop", "tablet"}

\* Detectors._screenshot*: the file name of a screenshot, f"{index:02d}_{viewport}.png"
ShotFile(index, viewport) == <<index, viewport>>

\* validate_state_captured
validate_state_captured(state) ==
    IF state.screenshots = {} THEN "fail"
    ELSE IF state.state_signature = "" THEN "fail"
    ELSE "pass"

\* validate_state_description
validate_state_description(state) ==
    IF StripLower(state.description) \in {"", "ui state", "ui state (stable)"}
    THEN "fail" ELSE "pass"

\* A screenshot check that does not look at the files (not what the code does).
validate_screenshot_quality_NoFiles(state, save_dir, disk) ==
    IF state.screenshots = {} THEN "fail" ELSE "pass"

\* validate_screenshot_quality: with a save_dir, every file must exist
validate_screenshot_quality(state, save_dir, disk) ==
    IF state.screenshots = {} THEN "fail"
    ELSE IF ~save_dir THEN "pass"
    ELSE IF \E f \in state.screenshots : f \notin disk THEN "fail"
    ELSE "pass"

ObserverOutcome(state, save_dir, disk) ==
    [n \in RuleNameSet(OBSERVER_CONSTITUTION) |->
        CASE n = "state_captured" -> validate_state_captured(state)
          [] n = "screenshot_quality" -> validate_screenshot_quality(state, save_dir, disk)
          [] n = "state_description" -> validate_state_description(state)]

MaxObserve == 2

\* What detectors.capture_state may hand back for index idx: a UIState with
\* any of the screenshots, signature and description (the detectors object is
\* given to the Observer by its caller), of which `written` reached the disk.
Captures(idx) ==
    { [state |-> [description |-> d, state_signature |-> sg, action |-> "click(x)",
                  screenshots |-> {ShotFile(idx, v) : v \in vs}],
       written |-> {ShotFile(idx, v) : v \in ws}] :
        d \in Descriptions, sg \in Signatures,
        vs \in {{}, {"desktop"}, Viewports}, ws \in SUBSET Viewports }

ObsInit ==
    /\ o_states = <<>> /\ o_idx = 0
    /\ o_save_dir \in BOOLEAN
    /\ o_disk = {}
    /\ o_last = NoCall
    /\ g_store = <<>> /\ g_configured \in BOOLEAN /\ g_last = NoCall
    /\ ConIdle /\ ArchIdle /\ RunIdle /\ NewIdle("none")

ObserveCalls == IF o_last = NoCall THEN 0 ELSE o_last.calls

\* Observer.observe when capture_state returns a state
Observer_observe ==
    /\ ObserveCalls < MaxObserve
    /\ \E cap \in Captures(o_idx) :
         LET disk2 == IF o_save_dir THEN o_disk \cup (cap.written \cap cap.state.screenshots)
                      ELSE o_disk
             g == gate("A3_Observer", OBSERVER_CONSTITUTION,
                       ObserverOutcome(cap.state, o_save_dir, disk2), g_store, g_configured)
             raised == g.result.kind = "ConstitutionViolation"
         IN /\ o_disk' = disk2
            /\ g_store' = g.store
            /\ o_states' = IF raised THEN o_states ELSE Append(o_states, cap.state)
            /\ o_idx' = IF raised THEN o_idx ELSE o_idx + 1
            /\ o_last' = [kind |-> "observe", calls |-> ObserveCalls + 1, state |-> cap.state,
                          raised |-> raised, returned |-> ~raised, report |-> g.report,
                          log_before |-> o_states, idx_before |-> o_idx]
    /\ UNCHANGED <<o_save_dir, g_configured, g_last, conVars, newVars, archVars, runVars>>

\* Observer.observe when capture_state returns None: nothing is validated
Observer_observe_none ==
    /\ ObserveCalls < MaxObserve
    /\ o_last' = [kind |-> "observe_none", calls |-> ObserveCalls + 1, state |-> NoCall,
                  raised |-> FALSE, returned |-> TRUE, report |-> NoCall,
                  log_before |-> o_states, idx_before |-> o_idx]
    /\ UNCHANGED <<o_states, o_idx, o_save_dir, o_disk, gateVars, conVars, newVars, archVars, runVars>>

\* Observer.observe when capture_state raises (a driver error): it propagates
Observer_observe_error ==
    /\ ObserveCalls < MaxObserve
    /\ o_last' = [kind |-> "observe_error", calls |-> ObserveCalls + 1, state |-> NoCall,
                  raised |-> TRUE, returned |-> FALSE, report |-> NoCall,
                  log_before |-> o_states, idx_before |-> o_idx]
    /\ UNCHANGED <<o_states, o_idx, o_save_dir, o_disk, gateVars, conVars, newVars, archVars, runVars>>

\* A states property that hands out the log itself.
Observer_states_property_Alias(_states) == [list |-> _states, alias |-> TRUE]

\* Observer.states: list(self._states), a new list with the same elements
Observer_states_property(_states) == [list |-> _states, alias |-> FALSE]

\* What a caller does with the list it was given
CallerEdits(list) == {list, <<>>, SubSeq(list, 1, Len(list) - 1)}

\* observer.states, and the caller editing the list it got
Observer_states ==
    /\ o_last # NoCall
    /\ LET r == Observer_states_property(o_states)
       IN \E edited \in CallerEdits(r.list) :
            /\ o_states' = IF r.alias THEN edited ELSE o_states
            /\ o_last' = [kind |-> "states", calls |-> ObserveCalls, state |-> NoCall,
                          raised |-> FALSE, returned |-> TRUE, report |-> NoCall,
                          log_before |-> o_states, idx_before |-> o_idx, list |-> edited]
    /\ UNCHANGED <<o_idx, o_save_dir, o_disk, gateVars, conVars, newVars, archVars, runVars>>

ObsNext ==
    Observer_observe \/ Observer_observe_none \/ Observer_observe_error \/ Observer_states

SpecObserver == ObsInit /\ [][ObsNext]_vars

DefaultDescription(state) == StripLower(state.description) \in {"", "ui state"}

C29_IndexIsLogLength ==
    /\ o_idx = Len(o_states)
    /\ o_last # NoCall =>
         /\ (o_last.kind = "observe" /\ ~o_last.raised) =>
              o_states = Append(o_last.log_before, o_last.state) /\ o_idx = o_last.idx_before + 1
         /\ (o_last.kind # "observe" \/ o_last.raised) =>
              o_states = o_last.log_before /\ o_idx = o_last.idx_before

\* a caller emptied the list it got from the states property while the log
\* holds a state
C29_Witness ==
    /\ o_last # NoCall /\ o_last.kind = "states"
    /\ o_last.list = <<>>
    /\ Len(o_states) = 1 /\ o_idx = 1

\* after a refused capture the next one is taken under the same index
C29_WitnessIndexReused ==
    /\ o_last # NoCall /\ o_last.kind = "observe" /\ o_last.raised
    /\ o_last.calls = 2 /\ o_idx = 0
    /\ \E f \in o_last.state.screenshots : f[1] = 0

(***************************************************************************)
(* Archivist: agents/archivist.py and store/dataset.py                     *)
(***************************************************************************)
MaxStates == 2
MaxWrites == 2

\* (app, task_slug) pairs: the dataset directories
Slugs == {"task", "task-retry-1"}

\* state_signature values, as (first 8 hex characters, the rest); two captures
\* of an unchanged page have the same signature.
ArchSignatures == {<<"9f86d081", "884c7d65">>, <<"2c26b46b", "68ffc68f">>}

\* Detectors.capture_state: id = f"state_{signature[:8]}"
StateId(signature) == <<"state_", signature[1]>>

\* The UIState captured at position k (0-based) of an attempt
CapturedState(k, signature, action) ==
    [id |-> StateId(signature), state_signature |-> signature, action |-> action,
     screenshots |-> [v \in {"desktop"} |-> ShotFile(k, v)]]

\* The lists of states an Observer log can hold, up to MaxStates long
StateLists ==
    UNION { { [k \in 1..n |-> CapturedState(k - 1, sg[k], ac[k])] :
                sg \in [1..n -> ArchSignatures],
                ac \in [1..n -> {"navigate(start)", "click(Create)"}] }
            : n \in 0..MaxStates }

\* A new directory: no steps.jsonl, no dataset.db
EmptyDataset == [steps |-> <<>>, states |-> <<>>, screenshots |-> <<>>, exists |-> FALSE]

\* json.dumps(s.__dict__) + "\n": one line of steps.jsonl
JsonLine(state) == <<"json", state>>

\* The row of table states for a UIState
StateRow(state) == [id |-> state.id, state_signature |-> state.state_signature,
                    action |-> state.action]

\* INSERT OR REPLACE INTO states: id is the PRIMARY KEY, so a row with the
\* same id is replaced. The table is a sequence of rows with distinct ids.
InsertOrReplaceState(table, row) ==
    Append(SelectSeq(table, LAMBDA r : r.id # row.id), row)

\* INSERT OR REPLACE INTO screenshots: the table has no key, so the row is added
RECURSIVE InsertScreenshots(_, _, _)
InsertScreenshots(table, state, todo) ==
    IF todo = {} THEN table
    ELSE LET v == CHOOSE x \in todo : TRUE
         IN InsertScreenshots(
                Append(table, [state_id |-> state.id, viewport |-> v,
                               filename |-> state.screenshots[v]]),
                state, todo \ {v})

\* DatasetStore.write_sqlite: CREATE TABLE IF NOT EXISTS, then the inserts
RECURSIVE write_sqlite(_, _)
write_sqlite(db, states) ==
    IF states = <<>> THEN db
    ELSE LET st == Head(states)
         IN write_sqlite(
                [db EXCEPT !.states = InsertOrReplaceState(@, StateRow(st)),
                           !.screenshots = InsertScreenshots(@, st, DOMAIN st.screenshots)],
                Tail(states))

\* Archivist.write_states up to the reports: steps.jsonl is opened with "w"
WriteFiles(dataset, states) ==
    LET db == write_sqlite(dataset, states)
    IN [steps |-> [i \in 1..Len(states) |-> JsonLine(states[i])],
        states |-> db.states, screenshots |-> db.screenshots, exists |-> TRUE]

\* validate_minimum_states_captured (min_states defaults to 1)
validate_minimum_states_captured(states) ==
    IF Len(states) < 1 THEN "fail" ELSE "pass"

\* validate_dataset_data_integrity: lines of steps.jsonl against the input
validate_dataset_data_integrity(dataset, states) ==
    IF ~dataset.exists THEN "fail"
    ELSE IF Len(dataset.steps) # Len(states) THEN "fail"
    ELSE "pass"

ArchivistOutcome(dataset, states) ==
    [n \in RuleNameSet(ARCHIVIST_CONSTITUTION) |->
        CASE n = "dataset_created" -> IF dataset.exists THEN "pass" ELSE "fail"
          [] n = "dataset_files" -> IF dataset.exists THEN "pass" ELSE "fail"
          [] n = "minimum_states" -> validate_minimum_states_captured(states)
          [] n = "dataset_data_integrity" -> validate_dataset_data_integrity(dataset, states)]

ArchInit ==
    /\ a_data = [sl \in Slugs |-> EmptyDataset]
    /\ a_calls = [sl \in Slugs |-> <<>>]
    /\ a_last = NoCall
    /\ g_store = <<>> /\ g_configured = TRUE /\ g_last = NoCall
    /\ ConIdle /\ ObsIdle /\ RunIdle /\ NewIdle("none")

WriteCalls == IF a_last = NoCall THEN 0 ELSE a_last.calls

\* Archivist.write_states(app, task_slug, states)
Archivist_write_states ==
    /\ WriteCalls < MaxWrites
    /\ \E sl \in Slugs, states \in StateLists :
         LET written == WriteFiles(a_data[sl], states)
             g == gate("A4_Archivist", ARCHIVIST_CONSTITUTION,
                       ArchivistOutcome(written, states), g_store, g_configured)
         IN /\ a_data' = [a_data EXCEPT ![sl] = written]
            /\ a_calls' = [a_calls EXCEPT ![sl] = Append(@, states)]
            /\ g_store' = g.store
            /\ a_last' = [kind |-> "write_states", calls |-> WriteCalls + 1, slug |-> sl,
                          input |-> states,
                          raised |-> (g.result.kind = "ConstitutionViolation")]
    /\ UNCHANGED <<g_configured, g_last, conVars, newVars, obsVars, runVars>>

ArchNext == Archivist_write_states

SpecArchivist == ArchInit /\ [][ArchNext]_vars

\* C8: after write_states on any list of captured states (also one in which
\* two states have the same state_signature and hence the same id), the number
\* of lines in steps.jsonl, the number of input states and the number of rows
\* in the states table are all equal.
C8_CountsEqual ==
    a_last # NoCall =>
        /\ Len(a_data[a_last.slug].steps) = Len(a_last.input)
        /\ Len(a_data[a_last.slug].states) = Len(a_last.input)

\* C9: write_states is idempotent per (app, slug): after two calls for the same
\* (app, slug) the dataset (steps.jsonl lines, rows of the states table, rows
\* of the screenshots table) equals what the second call alone would have
\* produced.
C9_SecondCallAlone ==
    \A sl \in Slugs :
        Len(a_calls[sl]) = 2 =>
            a_data[sl] = WriteFiles(EmptyDataset, a_calls[sl][2])

(***************************************************************************)
(* Orchestrator: run._main of runner/cli.py and run_task of web/server.py. *)
(* A run is a loop of attempts; an attempt plans, opens a browser context, *)
(* executes, finalizes the Navigator constitution, validates completion    *)
(* and archives.                                                           *)
(***************************************************************************)
MaxHeal == 1
MaxBudget == 2
MaxPlan == 3

\* if len(failure_history) > 20: failure_history[:] = failure_history[-20:]
FailureHistoryLimit == 20

\* seq[-n:]
LastN(seq, n) == IF Len(seq) <= n THEN seq ELSE SubSeq(seq, Len(seq) - n + 1, Len(seq))

\* total_runs = 1 + heal_attempts
total_runs == 1 + heal_attempts

\* What page.url can be when the Navigator constitution reads it
UrlKinds == {"", "about:blank", "https://example.com/app", "https://example.com/login"}

\* validate_navigation_success(plan, None, {"page": page, ..})
validate_navigation_success(has_navigation, url) ==
    IF url = "" THEN "fail"
    ELSE IF url = "about:blank" /\ has_navigation THEN "fail"
    ELSE "pass"

\* validate_action_budget: fails only when action_count > action_budget
validate_action_budget(action_count, action_budget) ==
    IF action_count > action_budget THEN "fail" ELSE "pass"

\* validate_no_auth_redirects: "/login", "/auth", "/signin" in url.lower()
validate_no_auth_redirects(url) ==
    IF url = "https://example.com/login" THEN "fail" ELSE "pass"

\* The validators of NAVIGATOR_CONSTITUTION on the nav_context of an attempt
NavigatorOutcome(a) ==
    [n \in RuleNameSet(NAVIGATOR_CONSTITUTION) |->
        CASE n = "navigation_success" -> validate_navigation_success(a.has_navigation, a.url)
          [] n = "action_budget" -> validate_action_budget(a.action_count, a.budget)
          [] n = "no_auth_redirects" -> validate_no_auth_redirects(a.url)]

\* Navigator.execute(plan, action_budget): the steps run in order up to the
\* budget, every step incrementing action_count. Whether the step that
\* finds the budget used up is itself counted is left open: both counts are
\* outcomes.
ActionCounts(plan_len, action_budget) ==
    IF plan_len <= action_budget THEN {plan_len} ELSE {action_budget, action_budget + 1}

\* Navigator.heal raises the action budget by this much
BudgetIncrement == 5

\* Navigator.heal(plan, nav_context, failures): (recovered, adjustments).
\* An adjustment that is absent is "" / 0 / {}, which the orchestrators'
\* `if adjustments.get(..)` tests treat alike.
Navigator_heal(a, start_url, failures) ==
    LET names == {failures[i].rule_name : i \in 1..Len(failures)}
    IN [recovered |-> (names \cap {"navigation_success", "action_budget"}) # {},
        adjustments |->
            [start_url |-> IF "navigation_success" \in names THEN start_url ELSE "",
             action_budget |-> IF "action_budget" \in names
                               THEN a.budget + BudgetIncrement ELSE 0,
             plan_context |->
                 [failure_history |-> NamesOf(failures),
                  requires_auth |-> "no_auth_redirects" \in names]]]

\* recovery_info = getattr(exc, "recovery", {}); adjustments = .. or {}
NoAdjustments ==
    [start_url |-> "", action_budget |-> 0,
     plan_context |-> [failure_history |-> <<>>, requires_auth |-> FALSE]]

NoOverrides == [failure_history |-> <<>>, requires_auth |-> FALSE]

Adjustments(e) == IF e.recovery = NoCall THEN NoAdjustments ELSE e.recovery.adjustments

\* cli: plan_context_overrides.update(adjustments["plan_context"]);
\* web: the same without the failure_history key
UpdateOverrides(fr, overrides, plan_ctx) ==
    IF plan_ctx = NoAdjustments.plan_context THEN overrides
    ELSE [failure_history |-> IF fr = "cli" THEN plan_ctx.failure_history
                              ELSE overrides.failure_history,
          requires_auth |-> plan_ctx.requires_auth \/ overrides.requires_auth]

\* An attempt loop that goes round once more after the last allowed attempt.
IsLastAttempt_OffByOne(i, total) == i = total

\* if attempt == total_runs - 1: raise
IsLastAttempt(i, total) == i = total - 1

\* Every error of the attempt sent round the loop as a constitution violation.
CaughtByAttemptLoop_AnyError(kind) == kind \in {"ConstitutionViolation", "CompletionValidationError"}

\* except ConstitutionViolation as exc: the errors the attempt loop handles
CaughtByAttemptLoop(kind) == kind = "ConstitutionViolation"

\* A completion error that is printed and swallowed.
CompletionRaises_Never(result) == FALSE

\* validate_completion raised CompletionValidationError, which is re-raised
CompletionRaises(result) == result = "failed"

\* The positions inside an attempt
AttemptPcs == {"plan", "open", "execute", "finalize", "completion", "archive"}

\* The state of an attempt when _run_attempt / run_attempt is entered
NewAttempt(i) ==
    [kind |-> "attempt", index |-> i, budget |-> 0, plan_len |-> 0,
     has_navigation |-> FALSE, pw |-> "none", ctx |-> "none", browser |-> "none",
     trace_starts |-> 0, trace_stops |-> 0, zip |-> FALSE, action_count |-> 0,
     url |-> "", states |-> 0, finalize |-> "none", marked |-> {}, healed |-> FALSE,
     completion |-> "none", archived |-> FALSE]

\* TraceController.stop
tracer_stop(a) == [a EXCEPT !.trace_stops = @ + 1]

\* await context.close(); if browser: await browser.close()
close_all(a) ==
    [a EXCEPT !.ctx = IF @ = "none" THEN @ ELSE "closed",
              !.browser = IF @ = "none" THEN @ ELSE "closed"]

\* web run_attempt, the finally block: stop the tracer when trace_zip_path
\* is set, close the context and the browser when they exist
web_finally(a) ==
    IF a.pw = "none" THEN a
    ELSE close_all(IF a.trace_starts > 0 /\ a.zip THEN tracer_stop(a) ELSE a)

\* Leaving the attempt: web runs its finally block, cli has none; in both the
\* `async with async_playwright()` block is left.
LeaveAttempt(fr, a) ==
    LET b == IF fr = "web" THEN web_finally(a) ELSE a
    IN [b EXCEPT !.pw = IF @ = "none" THEN @ ELSE "exited"]

\* What the run keeps of an attempt that ended
AttemptRecord(a, exit) ==
    [index |-> a.index, budget |-> a.budget,
     stopped_at_budget |-> (a.finalize # "none" /\ a.plan_len > a.budget),
     finalize |-> a.finalize, marked |-> a.marked, healed |-> a.healed,
     completion |-> a.completion, archived |-> a.archived,
     pw |-> a.pw, ctx |-> a.ctx, browser |-> a.browser,
     trace_starts |-> a.trace_starts, trace_stops |-> a.trace_stops, exit |-> exit]

\* The attempt ends by raising e (a ConstitutionViolation goes to the handler
\* of the attempt loop, any other error ends the run) or, with e = NoCall, by
\* returning.
EndAttempt(a, e) ==
    LET b == LeaveAttempt(front, a)
        exit == IF e = NoCall THEN "return" ELSE e.kind
    IN /\ log' = Append(log, AttemptRecord(b, exit))
       /\ att' = NoCall
       /\ IF e = NoCall
          THEN /\ pc' = "done" /\ exc' = NoCall
               /\ outcome' = [status |-> "success", error |-> "none", cause |-> "none"]
          ELSE IF CaughtByAttemptLoop(e.kind)
          THEN /\ pc' = "except" /\ exc' = e
               /\ outcome' = outcome
          ELSE /\ pc' = "done" /\ exc' = NoCall
               /\ outcome' = IF e.kind = "CancelledError"
                             THEN [status |-> "cancelled", error |-> e.kind, cause |-> e.kind]
                             ELSE [status |-> "failed",
                                   error |-> IF front = "web" THEN "HTTPException" ELSE e.kind,
                                   cause |-> e.kind]

Violation(result) ==
    [kind |-> "ConstitutionViolation", agent |-> result.agent,
     failures |-> result.failures, recovery |-> NoCall]

\* Any other exception; it has no failures and no recovery attribute
Error(kind) == [kind |-> kind, agent |-> "none", failures |-> <<>>, recovery |-> NoCall]

runCfg == <<front, heal_attempts, cfg_budget, user_data_dir>>
runKept == <<start_url_current, action_budget_override, plan_context_overrides,
             failure_history>>

RunInit ==
    /\ front \in {"cli", "web"}
    /\ heal_attempts \in 0..MaxHeal
    /\ cfg_budget \in 1..MaxBudget
    /\ user_data_dir \in BOOLEAN
    /\ shutdown = FALSE
    /\ pc = "loop"
    /\ attempt = 0
    /\ att = NoCall
    /\ exc = NoCall
    /\ start_url_current = "https://example.com"
    /\ action_budget_override = 0
    /\ plan_context_overrides = NoOverrides
    /\ failure_history = <<>>
    /\ log = <<>>
    /\ outcome = NoCall
    /\ g_store = <<>> /\ g_configured = TRUE /\ g_last = NoCall
    /\ ConIdle /\ ObsIdle /\ ArchIdle /\ NewIdle("none")

\* signal_handler: shutdown_event.set()
Signal ==
    /\ front = "cli" /\ pc # "done" /\ ~shutdown
    /\ shutdown' = TRUE
    /\ UNCHANGED <<runCfg, runKept, pc, attempt, att, exc, log, outcome,
                   conVars, newVars, gateVars, obsVars, archVars>>

\* cli, top of the loop body: if shutdown_event.is_set(): return
LoopCancelled ==
    /\ pc = "loop" /\ front = "cli" /\ shutdown
    /\ pc' = "done"
    /\ outcome' = [status |-> "cancelled", error |-> "none", cause |-> "none"]
    /\ UNCHANGED <<runCfg, runKept, shutdown, attempt, att, exc, log,
                   conVars, newVars, gateVars, obsVars, archVars>>

\* await _run_attempt(attempt, attempt_slug): the attempt is entered
StartAttempt ==
    /\ pc = "loop" /\ ~(front = "cli" /\ shutdown)
    /\ att' = NewAttempt(attempt)
    /\ pc' = "plan"
    /\ UNCHANGED <<runCfg, runKept, shutdown, attempt, exc, log, outcome,
                   conVars, newVars, gateVars, obsVars, archVars>>

AllPass(rules) == [n \in RuleNameSet(rules) |-> "pass"]
FailOnly(rules, name) == [n \in RuleNameSet(rules) |-> IF n = name THEN "fail" ELSE "pass"]

\* What the planner's output does to the validators of INTERPRETER_CONSTITUTION
PlanOutcomes ==
    {AllPass(INTERPRETER_CONSTITUTION),
     FailOnly(INTERPRETER_CONSTITUTION, "plan_non_empty"),
     FailOnly(INTERPRETER_CONSTITUTION, "plan_step_validity")}

untouched == <<runCfg, shutdown, conVars, newVars, g_configured, g_last, obsVars, archVars>>

\* plan = await interpreter.plan(task, plan_context);
\* plan = apply_site_overrides(plan, start_url_current)
Plan ==
    /\ pc = "plan"
    /\ \E out \in PlanOutcomes :
         LET g == gate("A1_Interpreter", INTERPRETER_CONSTITUTION, out, g_store, g_configured)
         IN /\ g_store' = g.store
            /\ IF g.result.kind = "ConstitutionViolation"
               THEN EndAttempt(att, Violation(g.result))
               ELSE /\ \E n \in 1..MaxPlan, nav \in BOOLEAN :
                         att' = [att EXCEPT !.plan_len = n, !.has_navigation = nav]
                    /\ pc' = "open"
                    /\ UNCHANGED <<exc, log, outcome>>
    /\ UNCHANGED <<untouched, runKept, attempt>>

\* The planner (an LLM call) fails with an error of its own
PlanError ==
    /\ pc = "plan"
    /\ EndAttempt(att, Error("Exception"))
    /\ UNCHANGED <<untouched, runKept, attempt, g_store>>

\* async with async_playwright(): launch or launch_persistent_context,
\* new_context, tracer.start(), action_budget = override or configured
OpenBrowser ==
    /\ pc = "open"
    /\ att' = [att EXCEPT !.pw = "entered", !.ctx = "open",
                          !.browser = IF user_data_dir THEN "none" ELSE "open",
                          !.trace_starts = @ + 1,
                          !.budget = IF action_budget_override # 0
                                     THEN action_budget_override ELSE cfg_budget]
    /\ pc' = "execute"
    /\ UNCHANGED <<untouched, runKept, attempt, g_store, exc, log, outcome>>

\* await navigator.execute(plan, action_budget=action_budget) returns
Execute ==
    /\ pc = "execute"
    /\ \E count \in ActionCounts(att.plan_len, att.budget), url \in UrlKinds :
         \E st \in {0, count} :
            att' = [att EXCEPT !.action_count = count, !.url = url, !.states = st,
                               !.zip = TRUE]
    /\ pc' = "finalize"
    /\ UNCHANGED <<untouched, runKept, attempt, g_store, exc, log, outcome>>

\* navigator.execute raises: the Observer's gate raised ConstitutionViolation
\* on a capture
ExecuteViolation ==
    /\ pc = "execute"
    /\ LET g == gate("A3_Observer", OBSERVER_CONSTITUTION,
                     FailOnly(OBSERVER_CONSTITUTION, "screenshot_quality"),
                     g_store, g_configured)
       IN /\ g_store' = g.store
          /\ EndAttempt(att, Violation(g.result))
    /\ UNCHANGED <<untouched, runKept, attempt>>

\* navigator.execute raises another error (the driver)
ExecuteError ==
    /\ pc = "execute"
    /\ EndAttempt(att, Error("Exception"))
    /\ UNCHANGED <<untouched, runKept, attempt, g_store>>

\* nav_report = navigator.finalize(plan, nav_context) and, on
\* ConstitutionViolation, heal, tracer.stop and (cli) the closes, then raise
Finalize ==
    /\ pc = "finalize"
    /\ LET g == Navigator_finalize(NavigatorOutcome(att), g_store, g_configured)
           marked == {f.rule_name : f \in {g.report.failures[i] : i \in 1..Len(g.report.failures)}}
                     \cup {f.rule_name : f \in {g.report.warnings[i] : i \in 1..Len(g.report.warnings)}}
       IN /\ g_store' = g.store
          /\ IF g.result.kind = "ConstitutionViolation"
             THEN LET e == [Violation(g.result) EXCEPT
                               !.recovery = Navigator_heal(att, start_url_current,
                                                           g.result.failures)]
                      a1 == tracer_stop([att EXCEPT !.finalize = "critical",
                                                   !.marked = marked, !.healed = TRUE])
                      a2 == IF front = "cli" THEN close_all(a1) ELSE a1
                  IN EndAttempt(a2, e)
             ELSE /\ att' = [att EXCEPT !.finalize = "passed", !.marked = marked]
                  /\ pc' = "completion"
                  /\ UNCHANGED <<exc, log, outcome>>
    /\ UNCHANGED <<untouched, runKept, attempt>>

\* validate_completion(plan, observer.states, min_targets); a
\* CompletionValidationError is re-raised (cli) or left to propagate (web)
Completion ==
    /\ pc = "completion"
    /\ \E result \in {"passed", "failed"} :
         LET a1 == [att EXCEPT !.completion = result]
         IN IF CompletionRaises(result)
            THEN EndAttempt(a1, Error("CompletionValidationError"))
            ELSE /\ att' = a1
                 /\ pc' = "archive"
                 /\ UNCHANGED <<exc, log, outcome>>
    /\ UNCHANGED <<untouched, runKept, attempt, g_store>>

\* tracer.stop(trace_zip_path); Archivist.write_states(app, attempt_slug,
\* observer.states); cli then closes the context and the browser
Archive ==
    /\ pc = "archive"
    /\ LET a1 == [tracer_stop(att) EXCEPT !.archived = TRUE]
           out == [AllPass(ARCHIVIST_CONSTITUTION) EXCEPT
                      !["minimum_states"] =
                          validate_minimum_states_captured([k \in 1..att.states |-> k])]
           g == gate("A4_Archivist", ARCHIVIST_CONSTITUTION, out, g_store, g_configured)
       IN /\ g_store' = g.store
          /\ IF g.result.kind = "ConstitutionViolation"
             THEN EndAttempt(a1, Violation(g.result))
             ELSE EndAttempt(IF front = "cli" THEN close_all(a1) ELSE a1, NoCall)
    /\ UNCHANGED <<untouched, runKept, attempt>>

\* write_states fails with an error of the file system or of SQLite
ArchiveError ==
    /\ pc = "archive"
    /\ EndAttempt([tracer_stop(att) EXCEPT !.archived = TRUE], Error("Exception"))
    /\ UNCHANGED <<untouched, runKept, attempt, g_store>>

\* web: the task is cancelled while the attempt awaits
WebCancel ==
    /\ front = "web" /\ pc \in {"plan", "open", "execute", "archive"}
    /\ EndAttempt(att, Error("CancelledError"))
    /\ UNCHANGED <<untouched, runKept, attempt, g_store>>

\* except ConstitutionViolation as exc: of the attempt loop
HandleViolation ==
    /\ pc = "except"
    /\ LET adj == Adjustments(exc)
       IN /\ failure_history' =
                 LastN(failure_history \o NamesOf(exc.failures), FailureHistoryLimit)
          /\ start_url_current' =
                 IF adj.start_url # "" THEN adj.start_url ELSE start_url_current
          /\ plan_context_overrides' =
                 UpdateOverrides(front, plan_context_overrides, adj.plan_context)
          /\ action_budget_override' =
                 IF adj.action_budget # 0 THEN adj.action_budget ELSE action_budget_override
    /\ IF IsLastAttempt(attempt, total_runs)
       THEN /\ pc' = "done"
            /\ attempt' = attempt
            /\ outcome' = [status |-> "failed",
                           error |-> IF front = "web" THEN "HTTPException" ELSE exc.kind,
                           cause |-> exc.kind]
       ELSE /\ pc' = "loop"
            /\ attempt' = attempt + 1
            /\ outcome' = outcome
    /\ exc' = NoCall
    /\ UNCHANGED <<untouched, g_store, att, log>>

RunNext ==
    \/ Signal \/ LoopCancelled \/ StartAttempt
    \/ Plan \/ PlanError \/ OpenBrowser
    \/ Execute \/ ExecuteViolation \/ ExecuteError
    \/ Finalize \/ Completion \/ Archive \/ ArchiveError
    \/ WebCancel \/ HandleViolation

SpecRun == RunInit /\ [][RunNext]_vars

\* The attempts entered so far
Started == Len(log) + (IF att = NoCall THEN 0 ELSE 1)

\* A success ends the run: the attempt that returned is the last one
StopsAtFirstSuccess ==
    \A i \in 1..Len(log) :
        log[i].exit = "return" =>
            /\ i = Len(log) /\ att = NoCall /\ pc = "done"
            /\ outcome.status = "success"

LastAllowedEndedInViolation ==
    /\ pc = "done"
    /\ Len(log) = 1 + heal_attempts
    /\ log[Len(log)].exit = "ConstitutionViolation"

AttemptsSeen ==
    {log[i] : i \in 1..Len(log)} \cup
    (IF att = NoCall THEN {} ELSE {AttemptRecord(att, "running")})

\* C2: an attempt writes a dataset through the Archivist only after that same
\* attempt's finalize raised no critical violation and its completion
\* validation passed; an attempt that fails either check writes no dataset.
C2_ArchiveAfterBothChecks ==
    \A r \in AttemptsSeen :
        /\ r.archived => r.finalize = "passed" /\ r.completion = "passed"
        /\ (r.finalize = "critical" \/ r.completion = "failed") => ~r.archived

\* An attempt that archived and returned, after an attempt that failed a check
C2_Witness ==
    /\ Len(log) = 2
    /\ log[1].finalize = "critical" /\ ~log[1].archived
    /\ log[2].archived /\ log[2].exit = "return"

\* C5: when an attempt stops at the action budget with plan steps left over
\* (budget b, plan longer than b) and self-heal attempts remain, the attempt
\* is marked with the action_budget rule and the orchestrator runs a next
\* attempt whose action budget is b + 5.
C5_BudgetRaisedForNextAttempt ==
    pc = "done" =>
        \A i \in 1..Len(log) :
            (/\ log[i].stopped_at_budget
             /\ log[i].index < heal_attempts
             /\ log[i].exit \in {"return", "ConstitutionViolation"}) =>
                /\ "action_budget" \in log[i].marked
                /\ i < Len(log)
                /\ log[i + 1].budget \in {0, log[i].budget + BudgetIncrement}

\* C6: a completion validation error ends the run as failed: no heal
\* adjustments are computed for it and no further attempt is started, even
\* when self-heal attempts remain.
C6_CompletionErrorEndsRun ==
    \A i \in 1..Len(log) :
        log[i].completion = "failed" =>
            /\ log[i].exit = "CompletionValidationError"
            /\ ~log[i].healed
            /\ i = Len(log) /\ att = NoCall
            /\ pc = "done"
            /\ attempt = log[i].index
            /\ outcome.status = "failed"
            /\ outcome.cause = "CompletionValidationError"

\* A completion error in an attempt after which self-heal attempts remain
C6_Witness ==
    /\ Len(log) = 1 /\ heal_attempts = 1
    /\ log[1].completion = "failed" /\ pc = "done"

\* C7: on every exit path of an attempt that opened a browser context, the
\* context (and the browser, when one was launched) is closed before the
\* attempt returns or raises.
C7_ClosedOnEveryExit ==
    \A i \in 1..Len(log) :
        log[i].ctx # "none" =>
            /\ log[i].ctx = "closed"
            /\ log[i].browser \in {"none", "closed"}

\* C30: in each attempt, tracing is started exactly once after the browser
\* context is opened and stopped exactly once before that context is closed,
\* on every exit path of the attempt (success, Executor constitution
\* violation, completion validation error, other exception).
C30_TracingStartedAndStoppedOnce ==
    \A i \in 1..Len(log) :
        log[i].ctx # "none" =>
            /\ log[i].trace_starts = 1
            /\ log[i].trace_stops = 1

\* Tracing is never started twice in an attempt, and never stopped without
\* having been started, nor more than twice.
C30_StartedAtMostOnce ==
    \A i \in 1..Len(log) :
        /\ log[i].trace_starts <= 1
        /\ log[i].trace_stops <= 2
        /\ log[i].trace_stops > 0 => log[i].trace_starts = 1

(***************************************************************************)
(* Plans: core/schemas.py, the Interpreter's validators in                 *)
(* agents/constitutions.py and the gate of Interpreter.plan                *)
(***************************************************************************)
MaxSteps == 2

\* Python's None, and the values `not x` holds for
None == "None"
Falsy(x) == x \in {None, ""}
Truthy(x) == ~Falsy(x)

\* PlanStep(action, target=None, role=None, ...); kind is the Python type
PlanStep(action) ==
    [kind |-> "PlanStep", action |-> action, target |-> None, role |-> None,
     name |-> None, selector |-> None, value |-> None, start_selector |-> None,
     end_selector |-> None, file_path |-> None, option_value |-> None]

\* A step decoded from JSON that was never made a PlanStep
DictStep == [PlanStep("click") EXCEPT !.kind = "dict"]

\* valid_actions of validate_plan_step_validity
valid_actions ==
    {"navigate", "click", "type", "submit", "wait", "scroll",
     "select", "drag", "upload", "hover", "double_click", "right_click",
     "key_press", "screenshot", "evaluate", "fill", "check", "uncheck",
     "focus", "blur", "press_key", "go_back", "go_forward", "reload"}

\* validate_plan_step_validity, body of the loop: the step is appended to
\* invalid_steps
StepInvalid(step) ==
    IF step.kind # "PlanStep" THEN TRUE
    ELSE IF Falsy(step.action) THEN TRUE
    ELSE IF step.action \notin valid_actions THEN TRUE
    ELSE IF step.action = "navigate" THEN Falsy(step.target)
    ELSE IF step.action = "type" THEN Falsy(step.selector) \/ Falsy(step.value)
    ELSE IF step.action = "select"
         THEN Falsy(step.selector) \/ ~(Truthy(step.value) \/ Truthy(step.option_value))
    ELSE IF step.action = "drag"
         THEN Falsy(step.start_selector) \/ ~(Truthy(step.end_selector) \/ Truthy(step.target))
    ELSE IF step.action = "upload"
         THEN Falsy(step.selector) \/ ~(Truthy(step.file_path) \/ Truthy(step.value))
    ELSE IF step.action = "fill" THEN Falsy(step.selector) \/ Falsy(step.value)
    ELSE IF step.action = "check" THEN Falsy(step.selector)
    ELSE IF step.action = "uncheck" THEN Falsy(step.selector)
    ELSE IF step.action = "hover" THEN Falsy(step.selector)
    ELSE IF step.action = "key_press" THEN Falsy(step.value)
    ELSE FALSE

\* A validator that also wants the plan to end in a wait or a screenshot.
validate_plan_step_validity_NeedsEnding(steps) ==
    IF \E i \in 1..Len(steps) : StepInvalid(steps[i]) THEN "fail"
    ELSE IF steps # <<>> /\ steps[Len(steps)].action \notin {"wait", "screenshot"} THEN "fail"
    ELSE "pass"

\* validate_plan_step_validity: fails when invalid_steps is not empty
validate_plan_step_validity(steps) ==
    IF \E i \in 1..Len(steps) : StepInvalid(steps[i]) THEN "fail" ELSE "pass"

\* validate_plan_non_empty
validate_plan_non_empty(steps) == IF Len(steps) = 0 THEN "fail" ELSE "pass"

\* validate_plan_structure: an ExecutionPlan whose steps is a list
validate_plan_structure(steps) == "pass"

\* The validators of INTERPRETER_CONSTITUTION on a plan
InterpreterOutcome(steps) ==
    [n \in RuleNameSet(INTERPRETER_CONSTITUTION) |->
        CASE n = "plan_structure" -> validate_plan_structure(steps)
          [] n = "plan_non_empty" -> validate_plan_non_empty(steps)
          [] n = "plan_step_validity" -> validate_plan_step_validity(steps)]

\* Interpreter.plan from the provider's plan on: the report and whether
\* ConstitutionViolation is raised
Interpreter_plan(steps) ==
    gate("A1_Interpreter", INTERPRETER_CONSTITUTION, InterpreterOutcome(steps), <<>>, FALSE)

\* The fields the validator or the taxonomy looks at for an action
FieldsOf(action) ==
    CASE action = "navigate" -> {"target"}
      [] action \in {"click", "double_click", "right_click", "hover"} -> {"selector", "name"}
      [] action \in {"type", "fill"} -> {"selector", "value"}
      [] action \in {"submit", "check", "uncheck", "focus", "blur"} -> {"selector"}
      [] action = "select" -> {"selector", "value", "option_value"}
      [] action = "drag" -> {"start_selector", "end_selector", "target"}
      [] action = "upload" -> {"selector", "file_path", "value"}
      [] action \in {"key_press", "press_key", "wait"} -> {"value"}
      [] action = "scroll" -> {"selector", "value"}
      [] OTHER -> {}

\* PlanStep(action, **{f: "x" for f in set})
StepWith(action, set) ==
    [f \in DOMAIN PlanStep(action) |->
        IF f \in set THEN "x" ELSE PlanStep(action)[f]]

\* The steps a provider may generate: every action, known or not, with every
\* choice of its fields set; an empty value; a step that is no PlanStep
GeneratedSteps ==
    UNION { {StepWith(a, set) : set \in SUBSET FieldsOf(a)}
            : a \in valid_actions \cup {"teleport", ""} }
    \cup {[PlanStep("navigate") EXCEPT !.target = ""], DictStep}

PlansOf(stepset, n) == UNION {[1..k -> stepset] : k \in 0..n}

PlanInit ==
    /\ pl_plan \in PlansOf(GeneratedSteps, MaxSteps)
    /\ pl_start_url = ""
    /\ pl_last = NoCall
    /\ ConIdle /\ GateIdle /\ ObsIdle /\ ArchIdle /\ RunIdle /\ NewIdle("plan")

\* plan = await interpreter.plan(task, plan_context): the constitution gate
Interpreter_plan_validates ==
    /\ pl_last = NoCall
    /\ LET g == Interpreter_plan(pl_plan)
       IN pl_last' = [kind |-> "plan", passed |-> g.report.passed,
                      failures |-> NamesOf(g.report.failures),
                      raised |-> (g.result.kind = "ConstitutionViolation")]
    /\ UNCHANGED <<pl_plan, pl_start_url>>
    /\ KeepOthers("plan")

\* The caller validates the plan cut after its first k steps
Interpreter_plan_truncated ==
    /\ pl_last # NoCall /\ pl_last.kind = "plan"
    /\ \E k \in 0..(Len(pl_plan) - 1) :
         LET g == Interpreter_plan(SubSeq(pl_plan, 1, k))
         IN pl_last' = [kind |-> "truncated", whole |-> pl_last, kept |-> k,
                        passed |-> g.report.passed,
                        failures |-> NamesOf(g.report.failures),
                        raised |-> (g.result.kind = "ConstitutionViolation")]
    /\ UNCHANGED <<pl_plan, pl_start_url>>
    /\ KeepOthers("plan")

PlanNext == Interpreter_plan_validates \/ Interpreter_plan_truncated

SpecPlanner == PlanInit /\ [][PlanNext]_vars

\* "Element hint": a selector, a role with a name, or a name alone
ElementHint(step) == Truthy(step.selector) \/ Truthy(step.name)

\* The fields the action taxonomy requires for the step's action
TaxonomyMet(step) ==
    CASE step.action = "navigate" -> Truthy(step.target)
      [] step.action \in {"click", "double_click", "right_click", "hover"} -> ElementHint(step)
      [] step.action \in {"type", "fill"} -> Truthy(step.selector) /\ Truthy(step.value)
      [] step.action \in {"submit", "check", "uncheck", "focus", "blur"} -> Truthy(step.selector)
      [] step.action = "select" ->
            Truthy(step.selector) /\ (Truthy(step.value) \/ Truthy(step.option_value))
      [] step.action = "drag" ->
            Truthy(step.start_selector) /\ (Truthy(step.end_selector) \/ Truthy(step.target))
      [] step.action = "upload" ->
            Truthy(step.selector) /\ (Truthy(step.file_path) \/ Truthy(step.value))
      [] step.action \in {"key_press", "press_key", "wait"} -> Truthy(step.value)
      [] step.action = "scroll" -> Truthy(step.selector) \/ Truthy(step.value)
      [] OTHER -> TRUE

\* C11: a plan passes the Planner constitution only if it is a non-empty step
\* sequence in which every step's action belongs to the closed action set and
\* the step carries the fields the action taxonomy requires for that action;
\* any step violating this makes plan validation fail critically and aborts
\* the attempt (ConstitutionViolation is raised).
C11_PassedPlansMeetTaxonomy ==
    (pl_last # NoCall /\ pl_last.kind = "plan") =>
        LET ok == /\ Len(pl_plan) > 0
                  /\ \A i \in 1..Len(pl_plan) :
                        /\ pl_plan[i].kind = "PlanStep"
                        /\ pl_plan[i].action \in valid_actions
                        /\ TaxonomyMet(pl_plan[i])
        IN /\ pl_last.passed => ok
           /\ ~ok => pl_last.raised

\* C19: plan validation is monotone under truncation: when a plan passes the
\* Planner constitution, every plan formed by deleting trailing steps from it
\* passes the structure rule and the step-validity rule, and passes the
\* constitution as a whole while at least one step is kept.
C19_TruncationMonotone ==
    (pl_last # NoCall /\ pl_last.kind = "truncated" /\ pl_last.whole.passed) =>
        /\ "plan_structure" \notin {pl_last.failures[i] : i \in 1..Len(pl_last.failures)}
        /\ "plan_step_validity" \notin {pl_last.failures[i] : i \in 1..Len(pl_last.failures)}
        /\ pl_last.kept >= 1 => pl_last.passed /\ ~pl_last.raised

\* A two-step plan that passed, cut to its first step
C19_Witness ==
    /\ pl_last # NoCall /\ pl_last.kind = "truncated"
    /\ pl_last.whole.passed /\ Len(pl_plan) = 2 /\ pl_last.kept = 1 /\ pl_last.passed

(***************************************************************************)
(* Site overrides: core/plan_overrides.py                                  *)
(***************************************************************************)
GOOGLE_SEARCH_INPUT_SELECTOR == ":is(input,textarea)[name='q']"
\* _tune_wikipedia_plan: search_selector, submit_selector
search_selector == "input[name='search']"
submit_selector == "button#searchButton"

\* The start URLs of the runs considered
StartUrls ==
    {None, "", "https://www.google.com", "https://www.Google.com/",
     "https://en.wikipedia.org/wiki/Main_Page", "https://example.com"}

\* str.lower() on the strings that occur
Lower(s) ==
    CASE s = "https://www.Google.com/" -> "https://www.google.com/"
      [] s = "#SearchBox" -> "#searchbox"
      [] s = "Search" -> "search"
      [] s = "Images" -> "images"
      [] s = "Go" -> "go"
      [] OTHER -> s

\* str.strip() on the strings that occur
Strip(s) == IF s = "  " THEN "" ELSE s

\* `sub in s` for the substrings the overrides look for
Contains(s, sub) ==
    CASE sub = "google." -> s \in {"https://www.google.com", "https://www.google.com/"}
      [] sub = "wikipedia.org" -> s = "https://en.wikipedia.org/wiki/Main_Page"
      [] sub = "search" -> s \in {"#searchInput", "#searchbox", "search",
                                  search_selector, submit_selector}
      [] sub = "." -> s \in {"example.com", "button.go"}
      [] sub = " " -> s \in {"  "}

\* _looks_like_domain
looks_like_domain(text) == Contains(text, ".") /\ ~Contains(text, " ")

\* _google_result_selector: None, or the selector of a result link
google_result_selector(label) ==
    IF Falsy(label) THEN None
    ELSE LET text == Strip(label)
         IN IF Falsy(text) THEN None
            ELSE IF looks_like_domain(text)
            THEN "#search a[href*=\"example.com\"]"
            ELSE IF text = "Images" THEN "#search a:has-text(\"Images\")"
            ELSE "#search a:has-text(\"Search\")"

\* A search-input override that also turns the step into a fill.
ensure_google_search_selector_AsFill(step) ==
    [step EXCEPT !.selector = GOOGLE_SEARCH_INPUT_SELECTOR, !.role = None, !.action = "fill"]

\* _ensure_google_search_selector
ensure_google_search_selector(step) ==
    [step EXCEPT !.selector = GOOGLE_SEARCH_INPUT_SELECTOR, !.role = None]

\* _tune_google_plan, body of the loop
tune_google_step(step) ==
    IF step.action \in {"type", "fill"} /\ Falsy(step.selector)
    THEN ensure_google_search_selector(step)
    ELSE IF step.action = "click" /\ Falsy(step.selector) /\ Truthy(step.name)
    THEN LET selector == google_result_selector(step.name)
         IN IF Truthy(selector)
            THEN [step EXCEPT !.selector = selector, !.role = None]
            ELSE step
    ELSE step

\* _tune_wikipedia_plan, body of the loop: three ifs in a row
tune_wikipedia_step(step) ==
    LET s1 == IF /\ step.action \in {"type", "fill"}
                 /\ (Falsy(step.selector) \/ Contains(step.selector, "search"))
              THEN [step EXCEPT !.selector = search_selector] ELSE step
        s2 == IF /\ s1.action = "focus"
                 /\ (Falsy(s1.selector) \/ Contains(s1.selector, "search"))
              THEN [s1 EXCEPT !.selector = search_selector] ELSE s1
        name == Lower(IF Falsy(s2.name) THEN "" ELSE s2.name)
        selector == Lower(IF Falsy(s2.selector) THEN "" ELSE s2.selector)
    IN IF /\ s2.action \in {"click", "submit"}
          /\ (Contains(name, "search") \/ Contains(selector, "search"))
       THEN [s2 EXCEPT !.selector = submit_selector, !.name = None, !.role = None]
       ELSE s2

\* apply_site_overrides(plan, start_url): the plan's steps afterwards
apply_site_overrides(steps, start_url) ==
    IF Falsy(start_url) THEN steps
    ELSE LET lowered == Lower(start_url)
         IN IF Contains(lowered, "google.")
            THEN [i \in 1..Len(steps) |-> tune_google_step(steps[i])]
            ELSE IF Contains(lowered, "wikipedia.org")
            THEN [i \in 1..Len(steps) |-> tune_wikipedia_step(steps[i])]
            ELSE steps

MaxTuned == 2

\* PlanStep(action, selector=.., name=.., role=..)
Hinted(action, selector, name, role) ==
    [PlanStep(action) EXCEPT !.selector = selector, !.name = name, !.role = role,
                             !.value = IF action \in {"type", "fill"} THEN "x" ELSE None]

\* The steps of the plans handed to apply_site_overrides: domain names are
\* "example.com", labels "Images" and "Search", a blank label "  "
OverrideSteps ==
    {Hinted("type", s, "Search", "textbox") : s \in {None, "#searchInput", "#SearchBox"}}
    \cup {Hinted("fill", None, None, None)}
    \cup {Hinted("click", None, n, "link") : n \in {None, "  ", "Images", "example.com", "Search"}}
    \cup {Hinted("click", "#SearchBox", None, None), Hinted("click", "button.go", "Go", "button")}
    \cup {Hinted("focus", s, None, None) : s \in {None, "#searchInput", "button.go"}}
    \cup {Hinted("submit", s, None, None) : s \in {None, "#searchInput"}}
    \cup {[PlanStep("navigate") EXCEPT !.target = "x"], [PlanStep("wait") EXCEPT !.value = "x"]}

OverridesInit ==
    /\ pl_plan \in PlansOf(OverrideSteps, MaxTuned)
    /\ pl_start_url \in StartUrls
    /\ pl_last = NoCall
    /\ ConIdle /\ GateIdle /\ ObsIdle /\ ArchIdle /\ RunIdle /\ NewIdle("plan")

\* plan = apply_site_overrides(plan, start_url_current): the steps are
\* rewritten in place and the same plan is returned
Apply_site_overrides ==
    /\ pl_last = NoCall
    /\ pl_plan' = apply_site_overrides(pl_plan, pl_start_url)
    /\ pl_last' = [kind |-> "apply_site_overrides", before |-> pl_plan]
    /\ UNCHANGED pl_start_url
    /\ KeepOthers("plan")

OverridesNext == Apply_site_overrides

SpecOverrides == OverridesInit /\ [][OverridesNext]_vars

\* The fields of a step that the overrides may rewrite
Rewritable == {"selector", "role", "name"}

\* C16: apply_site_overrides never changes the number, the order or the action
\* of plan steps and rewrites only the selector, role and name fields of
\* steps; when the start URL is empty or contains neither 'google.' nor
\* 'wikipedia.org' (in any letter case), the plan is left completely unchanged.
C16_OverridesRewriteHintsOnly ==
    (pl_last # NoCall /\ pl_last.kind = "apply_site_overrides") =>
        /\ Len(pl_plan) = Len(pl_last.before)
        /\ \A i \in 1..Len(pl_plan) :
              \A f \in (DOMAIN pl_plan[i]) \ Rewritable :
                  pl_plan[i][f] = pl_last.before[i][f]
        /\ (\/ Falsy(pl_start_url)
            \/ /\ ~Contains(Lower(pl_start_url), "google.")
               /\ ~Contains(Lower(pl_start_url), "wikipedia.org")) =>
               pl_plan = pl_last.before

\* A two-step plan for Google of which the first step was rewritten
C16_Witness ==
    /\ pl_last # NoCall /\ pl_last.kind = "apply_site_overrides"
    /\ pl_start_url = "https://www.Google.com/"
    /\ Len(pl_plan) = 2
    /\ pl_plan[1] # pl_last.before[1] /\ pl_plan[2] = pl_last.before[2]

(***************************************************************************)
(* Completion validator, slugs: core/completion.py                         *)
(* A str is a sequence of one-character strings; NoneStr stands for None.  *)
(***************************************************************************)
MaxText == 7

NoneStr == <<"None">>

\* The characters of the texts considered: a lower-case and an upper-case
\* letter, a dash and a blank
Chars == {"a", "B", "-", " "}

\* str.lower(), per character
LowerChar(ch) ==
    CASE ch = "A" -> "a"
      [] ch = "B" -> "b"
      [] OTHER -> ch

\* [a-z0-9]
IsSlugChar(ch) == ch \in {"a", "b", "c", "d", "1"}

\* re.sub(r"[^a-z0-9]+", "-", t): every run of other characters becomes one dash
RECURSIVE SubRuns(_)
SubRuns(t) ==
    IF t = <<>> THEN <<>>
    ELSE IF IsSlugChar(Head(t)) THEN <<Head(t)>> \o SubRuns(Tail(t))
    ELSE IF Len(t) >= 2 /\ ~IsSlugChar(t[2]) THEN SubRuns(Tail(t))
    ELSE <<"-">> \o SubRuns(Tail(t))

\* str.strip(c) for a one-character c
RECURSIVE StripChar(_, _)
StripChar(t, c) ==
    IF t = <<>> THEN t
    ELSE IF Head(t) = c THEN StripChar(Tail(t), c)
    ELSE IF t[Len(t)] = c THEN StripChar(SubSeq(t, 1, Len(t) - 1), c)
    ELSE t

\* str.strip("-")
StripDashes(t) == StripChar(t, "-")

\* str.count("-")
CountDashes(t) == Cardinality({i \in 1..Len(t) : t[i] = "-"})

\* str.split(c)[0] for a one-character c
SplitFirst(t, c) ==
    IF \E i \in 1..Len(t) : t[i] = c
    THEN SubSeq(t, 1, (CHOOSE i \in 1..Len(t) :
                          t[i] = c /\ \A j \in 1..(i - 1) : t[j] # c) - 1)
    ELSE t

\* str.split("-")[0]
FirstSegment(t) == SplitFirst(t, "-")

\* _slugify_text
slugify_text(text) ==
    IF text = NoneStr \/ text = <<>> THEN NoneStr
    ELSE LET slug == StripDashes(SubRuns([i \in 1..Len(text) |-> LowerChar(text[i])]))
         IN IF Len(slug) < 3 THEN NoneStr
            ELSE LET cut == IF CountDashes(slug) >= 3 THEN FirstSegment(slug) ELSE slug
                 IN IF cut = <<>> THEN NoneStr ELSE cut

Texts == UNION {[1..n -> Chars] : n \in 0..MaxText} \cup {NoneStr}

SlugInit ==
    /\ sl_text \in Texts
    /\ sl_last = NoCall
    /\ ConIdle /\ GateIdle /\ ObsIdle /\ ArchIdle /\ RunIdle /\ NewIdle("slug")

\* slug = _slugify_text(text)
Slugify ==
    /\ sl_last = NoCall
    /\ sl_last' = [kind |-> "slug", calls |-> 1, slug |-> slugify_text(sl_text)]
    /\ UNCHANGED sl_text
    /\ KeepOthers("slug")

\* _slugify_text applied to the slug it returned
SlugifyAgain ==
    /\ sl_last # NoCall /\ sl_last.calls = 1
    /\ sl_last' = [kind |-> "slug", calls |-> 2, slug |-> slugify_text(sl_last.slug),
                   first |-> sl_last.slug]
    /\ UNCHANGED sl_text
    /\ KeepOthers("slug")

SlugNext == Slugify \/ SlugifyAgain

SpecSlug == SlugInit /\ [][SlugNext]_vars

\* C18: slugification is idempotent: slugify(slugify(s)) equals slugify(s) for
\* every string s, also when the slug of s has three or more dashes (and is
\* collapsed to its first segment) or is rejected as shorter than 3
\* characters.
C18_SlugifyIdempotent ==
    (sl_last # NoCall /\ sl_last.calls = 2) => sl_last.slug = sl_last.first

(***************************************************************************)
(* Completion validator: core/completion.py                                *)
(* URLs, labels and action texts are strings of a small domain; the path   *)
(* of a URL and the characters of a label are sequences of characters, so  *)
(* that slugs are computed by slugify_text.                                *)
(***************************************************************************)
MaxCvSteps == 2
MaxCvStates == 2
MaxTargets == 3

INTERACTIVE_ACTIONS ==
    {"type", "fill", "submit", "select", "upload", "check", "uncheck",
     "press_key", "key_press"}

\* _classify_plan
classify_plan(steps) ==
    IF \E i \in 1..Len(steps) : steps[i].action \in INTERACTIVE_ACTIONS
    THEN "interactive" ELSE "explore"

\* urlparse(url).path of the URLs that occur
PathOf(url) ==
    CASE url = "https://app.example/aaa" -> <<"/", "a", "a", "a">>
      [] url = "https://app.example/AAA/1" -> <<"/", "A", "A", "A", "/", "1">>
      [] url = "https://app.example/bbb/d" -> <<"/", "b", "b", "b", "/", "d">>
      [] url = "https://app.example/ccc/" -> <<"/", "c", "c", "c", "/">>
      [] url = "https://app.example/ab" -> <<"/", "a", "b">>
      [] OTHER -> <<"/">>

\* the characters of the step names that occur
NameChars(name) ==
    CASE name = "Bbb" -> <<"B", "b", "b">>
      [] name = "Ddd" -> <<"d", "d", "d">>
      [] name = "a b c d" -> <<"a", " ", "b", " ", "c", " ", "d">>
      [] OTHER -> <<>>

\* _first_path_slug
first_path_slug(url) ==
    IF Falsy(url) THEN NoneStr
    ELSE LET path == StripChar(PathOf(url), "/")
         IN IF path = <<>> THEN NoneStr
            ELSE slugify_text(SplitFirst(path, "/"))

\* the length above which _is_nav_click ignores a label
NAV_LABEL_LIMIT == 40

\* _is_nav_click; words are the runs of letters, re.findall(r"[A-Za-z]+", name)
is_nav_click(step) ==
    LET t == NameChars(step.name)
        IsLetter(ch) == ch \in {"a", "b", "c", "d", "A", "B"}
        words == {i \in 1..Len(t) : IsLetter(t[i]) /\ (i = 1 \/ ~IsLetter(t[i - 1]))}
    IN /\ step.action = "click" /\ Truthy(step.name)
       /\ step.role \in {"link", "button", None}
       /\ Len(t) <= NAV_LABEL_LIMIT
       /\ 0 < Cardinality(words) /\ Cardinality(words) <= 3

\* dict.setdefault on a dict kept as the sequence of its items
setdefault(d, slug, label) ==
    IF \E i \in 1..Len(d) : d[i].slug = slug THEN d
    ELSE Append(d, [slug |-> slug, label |-> label])

\* _expected_slugs: the items of the dict, in insertion order
RECURSIVE expected_slugs(_)
expected_slugs(steps) ==
    IF steps = <<>> THEN <<>>
    ELSE LET step == steps[Len(steps)]
             before == expected_slugs(SubSeq(steps, 1, Len(steps) - 1))
             tslug == first_path_slug(step.target)
             with_target == IF Truthy(step.target) /\ tslug # NoneStr
                            THEN setdefault(before, tslug, step.target) ELSE before
             nslug == slugify_text(NameChars(step.name))
         IN IF is_nav_click(step) /\ nslug # NoneStr
            THEN setdefault(with_target, nslug, step.name) ELSE with_target

\* _actual_slugs
actual_slugs(states) ==
    {first_path_slug(states[i].url) : i \in 1..Len(states)} \ {NoneStr}

\* any(token in action_desc ...) on (state.action or "").lower(), for the
\* action texts that occur
MentionsToken(action) == action \in {"Submit(form)", "click(Save)", "type(#q)"}

\* "form" in (meta.get("significance_reasoning") or "").lower(), for the
\* reasonings that occur
MentionsForm(reasoning) == reasoning = "Form submitted"

\* _has_interactive_signal with a token test that every action text passes.
has_interactive_signal_AnyAction(states) ==
    \E i \in 1..Len(states) :
        LET meta == states[i].metadata
        IN \/ meta.has_toast \notin {None, "False"}
           \/ meta.form_validity = "True"
           \/ meta.significance = "critical" /\ MentionsForm(meta.significance_reasoning)

\* _has_interactive_signal; metadata is a record of the keys read, None for
\* an absent key, "True" and "False" for the booleans, "'true'" for a str
has_interactive_signal(states) ==
    \E i \in 1..Len(states) :
        LET meta == states[i].metadata
        IN /\ MentionsToken(states[i].action)
           /\ \/ meta.has_toast \notin {None, "False"}
              \/ meta.form_validity = "True"
              \/ meta.significance = "critical" /\ MentionsForm(meta.significance_reasoning)

\* required_hits without the floor of 1.
required_hits_NoFloor(n_expected, min_targets) ==
    IF n_expected <= min_targets THEN n_expected ELSE min_targets

\* required_hits = min(len(expected), max(1, min_targets))
required_hits(n_expected, min_targets) ==
    LET floor == IF min_targets >= 1 THEN min_targets ELSE 1
    IN IF n_expected <= floor THEN n_expected ELSE floor

\* the loop that collects the missing labels, from item i on
RECURSIVE MissingLoop(_, _, _, _, _)
MissingLoop(expected, actual, required, i, missing) ==
    IF i > Len(expected) THEN missing
    ELSE LET m == IF expected[i].slug \notin actual
                  THEN Append(missing, expected[i].label) ELSE missing
         IN IF Len(m) >= required THEN m
            ELSE MissingLoop(expected, actual, required, i + 1, m)

Returned == [kind |-> "returned"]
CompletionValidationError(missing, actual) ==
    [kind |-> "CompletionValidationError", missing |-> missing, actual |-> actual]

\* validate_completion
validate_completion(steps, states, min_targets) ==
    LET mode == classify_plan(steps)
        expected == expected_slugs(steps)
        actual == actual_slugs(states)
        required == required_hits(Len(expected), min_targets)
        hits == {i \in 1..Len(expected) : expected[i].slug \in actual}
    IN IF mode = "explore"
       THEN IF Len(expected) <= 0 THEN Returned
            ELSE IF Cardinality(hits) >= required THEN Returned
            ELSE CompletionValidationError(
                     MissingLoop(expected, actual, required, 1, <<>>), actual)
       ELSE IF ~has_interactive_signal(states)
            THEN CompletionValidationError(<<"post-action signal">>, actual)
            ELSE Returned

\* the metadata of a state: `state.metadata or {}` with the keys read
Meta(has_toast, form_validity, significance, reasoning) ==
    [has_toast |-> has_toast, form_validity |-> form_validity,
     significance |-> significance, significance_reasoning |-> reasoning]

UIState(url, action, metadata) == [url |-> url, action |-> action, metadata |-> metadata]

CvStates ==
    {UIState("https://app.example/aaa", "navigate(/aaa)", Meta(None, None, None, None)),
     UIState("https://app.example/bbb/d", "click(Bbb)", Meta("True", None, None, None)),
     UIState("https://app.example/", "Submit(form)", Meta("True", None, None, None)),
     UIState("https://app.example/ccc/", "type(#q)", Meta("False", "'true'", "critical", "Page changed")),
     UIState("https://app.example/aaa", "click(Save)", Meta(None, None, "critical", "Form submitted")),
     UIState("", None, Meta(None, "True", None, None))}

CvSteps ==
    {[PlanStep("navigate") EXCEPT !.target = "https://app.example/aaa"],
     [PlanStep("click") EXCEPT !.name = "Bbb", !.role = "link",
                               !.target = "https://app.example/ccc/"],
     [PlanStep("click") EXCEPT !.name = "a b c d",
                               !.target = "https://app.example/AAA/1"],
     [PlanStep("click") EXCEPT !.name = "Ddd", !.role = "textbox",
                               !.target = "https://app.example/ab"],
     [PlanStep("type") EXCEPT !.selector = "#q", !.value = "x"]}

CvInit ==
    /\ cv_plan \in UNION {[1..n -> CvSteps] : n \in 0..MaxCvSteps}
    /\ cv_states \in UNION {[1..n -> CvStates] : n \in 0..MaxCvStates}
    /\ cv_min_targets \in 0..MaxTargets
    /\ cv_last = NoCall
    /\ ConIdle /\ GateIdle /\ ObsIdle /\ ArchIdle /\ RunIdle /\ NewIdle("cv")

\* validate_completion(plan, states, min_targets)
Validate_completion ==
    /\ cv_last = NoCall
    /\ cv_last' = validate_completion(cv_plan, cv_states, cv_min_targets)
    /\ UNCHANGED <<cv_plan, cv_states, cv_min_targets>>
    /\ KeepOthers("cv")

CvNext == Validate_completion

SpecCompletion == CvInit /\ [][CvNext]_vars

\* The set E of expected slugs, the set A of slugs of the captured URLs
ExpectedSet == {expected_slugs(cv_plan)[i].slug : i \in 1..Len(expected_slugs(cv_plan))}
ActualSet == actual_slugs(cv_states)
MinOf(a, b) == IF a <= b THEN a ELSE b
MaxOf(a, b) == IF a >= b THEN a ELSE b
LabelsNotReached ==
    {expected_slugs(cv_plan)[i].label : i \in
        {j \in 1..Len(expected_slugs(cv_plan)) : expected_slugs(cv_plan)[j].slug \notin ActualSet}}
IsExplore == \A i \in 1..Len(cv_plan) : cv_plan[i].action \notin INTERACTIVE_ACTIONS

\* C12: for an explore plan with a non-empty set E of expected slugs and the
\* set A of slugs of the captured URLs, validate_completion returns normally
\* if and only if |E \cap A| >= min(|E|, max(1, min_targets)); otherwise it
\* raises CompletionValidationError with a non-empty missing list that holds
\* only labels of expected slugs that are not in A.
C12_ExploreNeedsEnoughTargets ==
    (cv_last # NoCall /\ IsExplore /\ ExpectedSet # {}) =>
        LET enough == Cardinality(ExpectedSet \cap ActualSet) >=
                          MinOf(Cardinality(ExpectedSet), MaxOf(1, cv_min_targets))
        IN /\ (cv_last.kind = "returned") <=> enough
           /\ ~enough =>
                /\ cv_last.kind = "CompletionValidationError"
                /\ cv_last.missing # <<>>
                /\ \A i \in 1..Len(cv_last.missing) : cv_last.missing[i] \in LabelsNotReached

\* an explore plan with three expected slugs, two of them reached, min_targets 3:
\* the call raises
C12_Witness ==
    /\ cv_last # NoCall /\ IsExplore
    /\ Cardinality(ExpectedSet) = 3 /\ Cardinality(ExpectedSet \cap ActualSet) = 2
    /\ cv_min_targets = 3
    /\ cv_last.kind = "CompletionValidationError"

\* some single state mentions a token and shows a toast, a valid form or a
\* critical form event
SignalState(st) ==
    /\ st.action \in {"Submit(form)", "click(Save)", "type(#q)"}
    /\ \/ st.metadata.has_toast = "True"
       \/ st.metadata.form_validity = "True"
       \/ st.metadata.significance = "critical"
            /\ st.metadata.significance_reasoning = "Form submitted"

\* C13: a plan with at least one step whose action is type, fill, submit,
\* select, upload, check, uncheck, press_key or key_press is validated as
\* interactive: validate_completion returns normally if and only if some
\* single captured state has an action text mentioning submit / type / fill /
\* upload / check / form / save and metadata showing a toast, a valid form or
\* a critical-significance form event; otherwise it raises
\* CompletionValidationError, whatever URLs were captured.
C13_InteractiveNeedsSignal ==
    (cv_last # NoCall /\ ~IsExplore) =>
        /\ (cv_last.kind = "returned") <=> \E i \in 1..Len(cv_states) : SignalState(cv_states[i])
        /\ cv_last.kind \in {"returned", "CompletionValidationError"}

\* an interactive plan whose expected slugs were all reached, with a toast on
\* a state without a token and a token on a state without a signal: it raises
C13_Witness ==
    /\ cv_last # NoCall /\ ~IsExplore
    /\ ExpectedSet # {} /\ ExpectedSet \subseteq ActualSet
    /\ \E i \in 1..Len(cv_states) : cv_states[i].metadata.has_toast = "True"
    /\ \E i \in 1..Len(cv_states) : cv_states[i].action = "type(#q)"
    /\ cv_last.kind = "CompletionValidationError"

(***************************************************************************)
(* FailureStore with concurrent appenders and a reader:                    *)
(* core/constitution.py, FailureStore.save_failure and get_failures.       *)
(* A line of the file is the dict written by save_failure, or a record     *)
(* [malformed |-> text] for a line that save_failure did not write whole.  *)
(* An absent file and an empty file are both <<>>: get_failures returns [] *)
(* for either.                                                             *)
(***************************************************************************)
MaxInitialLines == 2

Appenders == {"w1", "w2"}

\* What each appender saves: a report with a critical failure, a report with
\* a warning only, or a report with neither
ReportsOf(p) ==
    IF p = "w1"
    THEN {[kind |-> "report", agent |-> "A1_Interpreter", passed |-> FALSE,
           failures |-> <<ValidationFailure("plan_non_empty", CRITICAL, "reason")>>,
           warnings |-> <<>>],
          [kind |-> "report", agent |-> "A1_Interpreter", passed |-> TRUE,
           failures |-> <<>>, warnings |-> <<>>]}
    ELSE {[kind |-> "report", agent |-> "A2_Navigator", passed |-> TRUE,
           failures |-> <<>>,
           warnings |-> <<ValidationFailure("action_budget", WARNING, "reason")>>]}

\* Lines found in the file at the start: a line of an earlier run, a line cut
\* short, a blank line, a line holding JSON that is not an object
InitialLines ==
    {EarlierLine, [malformed |-> "{\"agent\": \"A1_Interp"], [malformed |-> "  "],
     [malformed |-> "[]"]}

IsMalformed(line) == "malformed" \in DOMAIN line

\* not line.strip()
IsBlank(line) == IsMalformed(line) /\ line.malformed = "  "

\* json.loads(line): the dict, a list, or JSONDecodeError
json_loads(line) ==
    IF ~IsMalformed(line) THEN [kind |-> "dict", data |-> line]
    ELSE IF line.malformed = "[]" THEN [kind |-> "list"]
    ELSE [kind |-> "JSONDecodeError"]

\* get_failures, body of `for line in f`: the list after the line, or the
\* exception that leaves the loop. list has no attribute get.
read_line(line, agent, failures) ==
    IF IsBlank(line) THEN [kind |-> "continue", failures |-> failures]
    ELSE LET v == json_loads(line)
         IN IF v.kind = "JSONDecodeError" THEN [kind |-> "continue", failures |-> failures]
            ELSE IF agent = None
            THEN [kind |-> "continue",
                  failures |-> Append(failures, IF v.kind = "dict" THEN v.data ELSE [malformed |-> "[]"])]
            ELSE IF v.kind # "dict" THEN [kind |-> "AttributeError", failures |-> failures]
            ELSE IF v.data.agent = agent
            THEN [kind |-> "continue", failures |-> Append(failures, v.data)]
            ELSE [kind |-> "continue", failures |-> failures]

StoreInit ==
    /\ fs_initial \in UNION {[1..n -> InitialLines] : n \in 0..MaxInitialLines}
    /\ fs_file = fs_initial
    /\ fs_saved = <<>>
    /\ fs_app = [p \in Appenders |-> [pc |-> "idle"]]
    /\ fs_reader = NoCall
    /\ ConIdle /\ GateIdle /\ ObsIdle /\ ArchIdle /\ RunIdle /\ NewIdle("store")

\* save_failure, up to the open("a"): an empty report returns at once
SaveOpen(p) ==
    /\ fs_app[p].pc = "idle"
    /\ \E report \in ReportsOf(p) :
         fs_app' = [fs_app EXCEPT ![p] =
                        IF report.failures = <<>> /\ report.warnings = <<>>
                        THEN [pc |-> "returned", report |-> report]
                        ELSE [pc |-> "open", report |-> report]]
    /\ UNCHANGED <<fs_initial, fs_file, fs_saved, fs_reader>>
    /\ KeepOthers("store")

\* save_failure, the one f.write of the line, flushed by the close of the
\* file opened for append
SaveWrite(p) ==
    /\ fs_app[p].pc = "open"
    /\ fs_file' = save_failure(fs_file, fs_app[p].report)
    /\ fs_saved' = Append(fs_saved, fs_app[p].report)
    /\ fs_app' = [fs_app EXCEPT ![p].pc = "returned"]
    /\ UNCHANGED <<fs_initial, fs_reader>>
    /\ KeepOthers("store")

\* get_failures(agent, limit), up to the open("r")
ReadOpen ==
    /\ fs_reader = NoCall
    /\ \E agent \in {None, "A1_Interpreter"}, limit \in {0, 1, 2} :
         fs_reader' = IF fs_file = <<>>
                      THEN [kind |-> "returned", agent |-> agent, limit |-> limit,
                            cursor |-> 0, result |-> <<>>]
                      ELSE [kind |-> "reading", agent |-> agent, limit |-> limit,
                            cursor |-> 0, failures |-> <<>>]
    /\ UNCHANGED <<fs_initial, fs_file, fs_saved, fs_app>>
    /\ KeepOthers("store")

\* get_failures, one turn of `for line in f`
ReadLine ==
    /\ fs_reader # NoCall /\ fs_reader.kind = "reading"
    /\ fs_reader.cursor < Len(fs_file)
    /\ LET r == read_line(fs_file[fs_reader.cursor + 1], fs_reader.agent, fs_reader.failures)
       IN fs_reader' = IF r.kind = "continue"
                       THEN [fs_reader EXCEPT !.cursor = @ + 1, !.failures = r.failures]
                       ELSE [kind |-> r.kind, agent |-> fs_reader.agent,
                             limit |-> fs_reader.limit, cursor |-> fs_reader.cursor + 1]
    /\ UNCHANGED <<fs_initial, fs_file, fs_saved, fs_app>>
    /\ KeepOthers("store")

\* get_failures, end of file: return failures[-limit:] if limit else failures
ReadReturn ==
    /\ fs_reader # NoCall /\ fs_reader.kind = "reading"
    /\ fs_reader.cursor = Len(fs_file)
    /\ fs_reader' = [kind |-> "returned", agent |-> fs_reader.agent,
                     limit |-> fs_reader.limit, cursor |-> fs_reader.cursor,
                     result |-> IF fs_reader.limit # 0
                                THEN LastN(fs_reader.failures, fs_reader.limit)
                                ELSE fs_reader.failures]
    /\ UNCHANGED <<fs_initial, fs_file, fs_saved, fs_app>>
    /\ KeepOthers("store")

StoreNext ==
    \/ \E p \in Appenders : SaveOpen(p)
    \/ \E p \in Appenders : SaveWrite(p)
    \/ ReadOpen
    \/ ReadLine
    \/ ReadReturn

SpecStore == StoreInit /\ [][StoreNext]_vars

\* The records of the lines read that parse and match the agent filter
MatchingRecords(lines, agent) ==
    SelectSeq(lines, LAMBDA l : ~IsMalformed(l) /\ (agent = None \/ l.agent = agent))

\* C14: the failure store is append-only and line-granular: after any
\* interleaving of save_failure calls of concurrent appenders and get_failures
\* reads, every saved non-empty report is exactly one whole line, the earlier
\* lines are not altered, reordered or removed, and get_failures does not fail:
\* it returns the parseable records in file order (the last `limit` of those
\* matching the agent filter, for a limit of 1 or more), skipping malformed
\* lines.
C14_AppendOnlyAndTolerantReads ==
    /\ fs_file = fs_initial \o [i \in 1..Len(fs_saved) |-> to_dict(fs_saved[i])]
    /\ \A p \in DOMAIN fs_app :
         (fs_app[p].pc = "returned" /\ fs_app[p].report.failures \o fs_app[p].report.warnings # <<>>)
            => Cardinality({i \in 1..Len(fs_saved) : fs_saved[i] = fs_app[p].report}) = 1
    /\ fs_reader # NoCall =>
         /\ fs_reader.kind \in {"reading", "returned"}
         /\ (fs_reader.kind = "returned" /\ fs_reader.limit >= 1) =>
                fs_reader.result =
                    LastN(MatchingRecords(SubSeq(fs_file, 1, fs_reader.cursor), fs_reader.agent),
                          fs_reader.limit)

(***************************************************************************)
(* The plan context over the attempts of a run: runner/cli.py run._main    *)
(* and _run_attempt, web/server.py run_task and run_attempt.               *)
(* The body of an attempt is one step here: the plan context of the next   *)
(* attempt depends only on how the attempt ended.                          *)
(***************************************************************************)
MaxContextHeal == 7

\* failure_history[-10:]
PlanContextLimit == 10

\* plan_context = {"start_url": .., "retry": attempt_index}; the last
\* failures when there are any; then plan_context.update(plan_context_overrides).
\* An absent failure_history key is <<>>.
build_plan_context(start_url, attempt_index, history, overrides) ==
    [start_url |-> start_url, retry |-> attempt_index,
     failure_history |-> IF overrides.failure_history # <<>>
                         THEN overrides.failure_history
                         ELSE LastN(history, PlanContextLimit),
     requires_auth |-> overrides.requires_auth]

ContextInit ==
    /\ front \in {"cli", "web"}
    /\ heal_attempts \in 0..MaxContextHeal
    /\ cfg_budget = 1
    /\ user_data_dir = FALSE
    /\ shutdown = FALSE
    /\ pc = "loop"
    /\ attempt = 0
    /\ att = NoCall
    /\ exc = NoCall
    /\ start_url_current = "https://example.com"
    /\ action_budget_override = 0
    /\ plan_context_overrides = NoOverrides
    /\ failure_history = <<>>
    /\ log = <<>>
    /\ outcome = NoCall
    /\ g_store = <<>> /\ g_configured = TRUE /\ g_last = NoCall
    /\ plan_context = NoCall
    /\ ConIdle /\ ObsIdle /\ ArchIdle /\ NewIdle("ctx")

\* _run_attempt / run_attempt, up to the call of interpreter.plan
BuildPlanContext ==
    /\ pc = "plan"
    /\ plan_context' = build_plan_context(start_url_current, att.index,
                                          failure_history, plan_context_overrides)
    /\ pc' = "planned"
    /\ UNCHANGED <<runCfg, runKept, shutdown, attempt, att, exc, log, outcome,
                   conVars, gateVars, obsVars, archVars,
                   planVars, slugVars, cvVars, storeVars, viewVars, stratVars, metVars,
                   llmVars, locVars, sigVars>>

\* The ways an attempt ends that the plan context depends on: it returns; the
\* planner's gate raises with every rule failed; finalize raises on
\* navigation_success and the handler attaches the heal's recovery; another
\* error is raised
AttemptEnds ==
    /\ pc = "planned"
    /\ \E e \in {NoCall,
                 Violation(must_pass("A1_Interpreter", INTERPRETER_CONSTITUTION,
                                     [n \in RuleNameSet(INTERPRETER_CONSTITUTION) |-> "fail"])),
                 [Violation(must_pass("A2_Navigator", NAVIGATOR_CONSTITUTION,
                                      FailOnly(NAVIGATOR_CONSTITUTION, "navigation_success")))
                     EXCEPT !.recovery =
                         Navigator_heal(att, start_url_current,
                             must_pass("A2_Navigator", NAVIGATOR_CONSTITUTION,
                                       FailOnly(NAVIGATOR_CONSTITUTION, "navigation_success")).failures)],
                 Error("Exception")} :
         EndAttempt(att, e)
    /\ UNCHANGED <<untouched, runKept, attempt, g_store>>

ContextNext == StartAttempt \/ BuildPlanContext \/ AttemptEnds \/ HandleViolation

SpecContext == ContextInit /\ [][ContextNext]_vars

\* C15: in every attempt of a run the failure_history of the plan context
\* handed to the planner holds at most 10 entries, and they are the most recent
\* entries of the run's failure history, which never holds more than 20
\* entries; heal adjustments merged into the plan context do not replace or
\* enlarge it.
C15_PlanContextHistoryIsRecent ==
    /\ Len(failure_history) <= 20
    /\ pc = "planned" =>
         /\ Len(plan_context.failure_history) <= 10
         /\ plan_context.failure_history =
                LastN(failure_history, Len(plan_context.failure_history))
         /\ (failure_history # <<>>) => plan_context.failure_history # <<>>

(***************************************************************************)
(* Alternate-viewport screenshots: observer/detectors.py,                  *)
(* Detectors._screenshot_tablet and _screenshot_mobile.                    *)
(* A viewport size is written "WxH"; page.viewport_size may be None.       *)
(***************************************************************************)
MaxShots == 2

desktop_viewport == "1366x832"
tablet_viewport == "834x1112"
mobile_viewport == "390x844"

\* The awaits of _screenshot_tablet / _screenshot_mobile, in order; each can
\* raise. _redact_viewport swallows the errors of the region lookup, so it
\* raises only from redact_screenshot, which runs when redaction is enabled.
ShotSteps(redact) ==
    {"set_viewport_size", "screenshot", "restore"} \cup (IF redact THEN {"redact"} ELSE {})

\* _screenshot_tablet / _screenshot_mobile with the alternate viewport given:
\* page.viewport_size afterwards, and the await that raised ("none": it
\* returned the file name)
screenshot_alternate(size, viewport, raises) ==
    LET original_size == size
        restored == IF original_size # None THEN original_size ELSE desktop_viewport
    IN IF raises = "set_viewport_size" THEN [size |-> size, raised |-> raises]
       ELSE IF raises \in {"screenshot", "redact", "restore"}
       THEN [size |-> viewport, raised |-> raises]
       ELSE [size |-> restored, raised |-> raises]

ViewInit ==
    /\ vp_size \in {None, "1200x900", desktop_viewport, tablet_viewport}
    /\ vp_redact \in BOOLEAN
    /\ vp_last = NoCall
    /\ ConIdle /\ GateIdle /\ ObsIdle /\ ArchIdle /\ RunIdle /\ NewIdle("view")

ShotsTaken == IF vp_last = NoCall THEN 0 ELSE vp_last.calls

Shot(kind, viewport) ==
    /\ \E raises \in ShotSteps(vp_redact) \cup {"none"} :
         LET r == screenshot_alternate(vp_size, viewport, raises)
         IN /\ vp_size' = r.size
            /\ vp_last' = [kind |-> kind, calls |-> ShotsTaken + 1, viewport |-> viewport,
                           original_size |-> vp_size, raised |-> r.raised]
    /\ UNCHANGED vp_redact
    /\ KeepOthers("view")

\* Detectors._screenshot_tablet
Screenshot_tablet ==
    /\ ShotsTaken < MaxShots
    /\ Shot("tablet", tablet_viewport)

\* Detectors._screenshot_mobile
Screenshot_mobile ==
    /\ ShotsTaken < MaxShots
    /\ Shot("mobile", mobile_viewport)

ViewNext == Screenshot_tablet \/ Screenshot_mobile

SpecView == ViewInit /\ [][ViewNext]_vars

\* C17: after any tablet or mobile screenshot attempt, including one whose
\* screenshot or redaction step fails, the page viewport equals the size
\* recorded just before the resize, or the configured desktop default when
\* that size was unknown; it is never left at the tablet or mobile size.
C17_ViewportRestored ==
    (vp_last # NoCall /\ vp_last.raised \in {"none", "screenshot", "redact"}) =>
        vp_size = IF vp_last.original_size # None
                  THEN vp_last.original_size ELSE desktop_viewport

(***************************************************************************)
(* Strategy generator: agents/strategy_generator.py                        *)
(* A success rate r is kept as the integer r * RateScale; with RateScale a *)
(* power of ten no smaller than 10^MaxRecords, 0.9 * r + 0.1 * s is exact. *)
(***************************************************************************)
MaxRecords == 2

RECURSIVE Pow10(_)
Pow10(n) == IF n = 0 THEN 1 ELSE 10 * Pow10(n - 1)

RateScale == Pow10(MaxRecords)

\* SelectorStrategy(pattern, selector_type, context={.., "step_key": step_key})
SelectorStrategy(pattern, selector_type, step_key) ==
    [pattern |-> pattern, selector_type |-> selector_type, success_rate |-> 0,
     usage_count |-> 0, step_key |-> step_key]

\* element_description.lower() for the descriptions that occur
LowerDescription(d) ==
    CASE d = "Login Button" -> "login button"
      [] d = "Search box" -> "search box"
      [] d = "Join waitlist" -> "join waitlist"
      [] d = "Search" -> "search"
      [] OTHER -> d

\* f"{website_pattern or 'generic'}:{(element_description or 'unknown').lower()}:{step_key}"
cache_key(website_pattern, element_description, step_key) ==
    <<IF Falsy(website_pattern) THEN "generic" ELSE website_pattern,
      LowerDescription(IF Falsy(element_description) THEN "unknown" ELSE element_description),
      step_key>>

CacheKeys ==
    {"generic"} \X {"login button", "search box", "unknown", "join waitlist", "search", "#q"}
                \X {"", "Join waitlist", "Search", "#q", "#searchbox"}

\* step=None
NoStep == [kind |-> "None"]

\* step_key = step.selector or step.name or "" when a step is given
step_key_of(step) ==
    IF step = NoStep THEN ""
    ELSE IF Truthy(step.selector) THEN step.selector
    ELSE IF Truthy(step.name) THEN step.name
    ELSE ""

\* list.sort(key=lambda s: s.success_rate, reverse=True): stable, descending
RECURSIVE sort_by_rate(_)
sort_by_rate(strategies) ==
    IF strategies = <<>> THEN <<>>
    ELSE LET n == Len(strategies)
             x == strategies[n]
             sorted == sort_by_rate(SubSeq(strategies, 1, n - 1))
             k == Cardinality({i \in 1..(n - 1) : sorted[i].success_rate >= x.success_rate})
         IN SubSeq(sorted, 1, k) \o <<x>> \o SubSeq(sorted, k + 1, n - 1)

\* any(token in element_lower for token in search_tokens) or
\* "search" in step_selector, on the descriptions and selectors that occur
MentionsSearch(element_description, step) ==
    \/ LowerDescription(element_description) \in {"search box", "search"}
    \/ step # NoStep /\ step.selector = "#searchbox"

\* generate_selector_strategies(element_description, website_pattern, step=step):
\* the list returned and _strategies afterwards
generate_selector_strategies(strategies, element_description, website_pattern, step) ==
    LET key == cache_key(website_pattern, element_description, step_key_of(step))
        New(t) == SelectorStrategy(element_description, t, step_key_of(step))
        specialised == IF MentionsSearch(element_description, step)
                       THEN <<New("placeholder"), New("role_searchbox"),
                              New("css_search"), New("aria_label")>>
                       ELSE <<>>
        base == <<New("role"), New("data-testid"), New("text"), New("css"), New("xpath")>>
        list == IF strategies[key] # <<>> THEN sort_by_rate(strategies[key])
                ELSE specialised \o base
    IN [returned |-> list, strategies |-> [strategies EXCEPT ![key] = list]]

\* s.success_rate = 0.9 * s.success_rate + 0.1 * (1.0 if success else 0.0)
ema(rate, success) == (9 * rate + (IF success THEN RateScale ELSE 0)) \div 10

\* record_strategy_result(strategy, success, element_description, website_pattern):
\* _strategies afterwards
record_strategy_result(strategies, strategy, success, element_description, website_pattern) ==
    LET key == cache_key(website_pattern, element_description, strategy.step_key)
        list == strategies[key]
        hits == {i \in 1..Len(list) : list[i].pattern = strategy.pattern
                                      /\ list[i].selector_type = strategy.selector_type}
    IN IF list = <<>> \/ hits = {} THEN strategies
       ELSE LET i == CHOOSE j \in hits : \A h \in hits : j <= h
            IN [strategies EXCEPT ![key][i] =
                    [@ EXCEPT !.usage_count = @ + 1,
                              !.success_rate = ema(@, success)]]

\* get_best_strategies(element_description, website_pattern, limit, step)
get_best_strategies(strategies, element_description, website_pattern, limit, step) ==
    LET g == generate_selector_strategies(strategies, element_description, website_pattern, step)
        sorted == sort_by_rate(g.returned)
    IN [returned |-> SubSeq(sorted, 1, IF Len(sorted) <= limit THEN Len(sorted) ELSE limit),
        strategies |-> [g.strategies EXCEPT
                           ![cache_key(website_pattern, element_description, step_key_of(step))] = sorted]]

StratInit ==
    /\ sg_strategies = [k \in CacheKeys |-> <<>>]
    /\ sg_returned = NoCall
    /\ sg_last = NoCall
    /\ ConIdle /\ GateIdle /\ ObsIdle /\ ArchIdle /\ RunIdle /\ NewIdle("strat")

RecordsMade ==
    LET Sum(f) == LET RECURSIVE S(_)
                      S(D) == IF D = {} THEN 0
                              ELSE LET d == CHOOSE d \in D : TRUE IN f[d] + S(D \ {d})
                  IN S(DOMAIN f)
    IN Sum([k \in CacheKeys |-> Sum([i \in 1..Len(sg_strategies[k]) |->
                                        sg_strategies[k][i].usage_count])])

\* strategies = generator.generate_selector_strategies(description, website_pattern)
Generate ==
    /\ \E d \in {"Login Button", "Search box"}, w \in {None} :
         LET g == generate_selector_strategies(sg_strategies, d, w, NoStep)
         IN /\ sg_strategies' = g.strategies
            /\ sg_returned' = [kind |-> "returned", list |-> g.returned,
                               element_description |-> d, website_pattern |-> w]
            /\ sg_last' = [kind |-> "generate", returned |-> g.returned]
    /\ KeepOthers("strat")

\* generator.record_strategy_result(strategy, success, ...) on a strategy of
\* the list returned last, with or without the description and website
\* pattern the list was generated for. The strategies of the returned list
\* are the stored objects, so the list shows the update.
RecordResult ==
    /\ sg_returned # NoCall
    /\ RecordsMade < MaxRecords
    /\ \E i \in 1..Len(sg_returned.list), success \in BOOLEAN, named \in BOOLEAN :
         LET strategy == sg_returned.list[i]
             gkey == cache_key(sg_returned.website_pattern, sg_returned.element_description, "")
             Stored(st) == st[gkey][CHOOSE j \in 1..Len(st[gkey]) :
                                      st[gkey][j].selector_type = strategy.selector_type]
             after == record_strategy_result(sg_strategies, strategy, success,
                          IF named THEN sg_returned.element_description ELSE None,
                          IF named THEN sg_returned.website_pattern ELSE None)
         IN /\ sg_strategies' = after
            /\ sg_last' = [kind |-> "record", success |-> success, named |-> named,
                           before |-> Stored(sg_strategies), after |-> Stored(after)]
            /\ sg_returned' = [sg_returned EXCEPT !.list =
                   [j \in 1..Len(@) |->
                       after[gkey][CHOOSE n \in 1..Len(after[gkey]) :
                                      after[gkey][n].selector_type = @[j].selector_type]]]
    /\ KeepOthers("strat")

\* generator.get_best_strategies(description, website_pattern, limit)
Get ==
    /\ \E d \in {"Login Button", "Search box"}, w \in {None}, limit \in {3, 9} :
         LET g == get_best_strategies(sg_strategies, d, w, limit, NoStep)
         IN /\ sg_strategies' = g.strategies
            /\ sg_returned' = [kind |-> "returned", list |-> g.returned,
                               element_description |-> d, website_pattern |-> w]
            /\ sg_last' = [kind |-> "get", returned |-> g.returned]
    /\ KeepOthers("strat")

StratNext == Generate \/ RecordResult \/ Get

SpecStrategies == StratInit /\ [][StratNext]_vars

\* C20: after strategies are generated for a description, every
\* RecordResult(strategy, success) on one of the returned strategies sets that
\* strategy's rate to 0.9 * rate + 0.1 * (1 if success else 0) and increments
\* its usage_count by one, so rates stay within [0, 1] and Record(true) never
\* lowers the rate; a following Get returns the strategies in non-increasing
\* success-rate order.
C20_RecordUpdatesRate ==
    /\ (sg_last # NoCall /\ sg_last.kind = "record") =>
         /\ 10 * sg_last.after.success_rate =
                9 * sg_last.before.success_rate + (IF sg_last.success THEN RateScale ELSE 0)
         /\ sg_last.after.usage_count = sg_last.before.usage_count + 1
         /\ sg_last.after.success_rate \in 0..RateScale
         /\ sg_last.success => sg_last.after.success_rate >= sg_last.before.success_rate
    /\ (sg_last # NoCall /\ sg_last.kind = "get") =>
         \A i \in 1..(Len(sg_last.returned) - 1) :
            sg_last.returned[i].success_rate >= sg_last.returned[i + 1].success_rate

(***************************************************************************)
(* Strategy generator, suggest_improved_step:                              *)
(* agents/strategy_generator.py                                            *)
(***************************************************************************)
MaxSuggestRecords == 1

\* failed_step.name.lower().replace(" ", "-") for the names that occur
DashedName(name) ==
    CASE name = "Join waitlist" -> "join-waitlist"
      [] name = "Search" -> "search"
      [] OTHER -> name

\* f'[data-testid="{base}"]'
data_testid_selector(name) ==
    CASE DashedName(name) = "join-waitlist" -> "[data-testid=\"join-waitlist\"]"
      [] OTHER -> "[data-testid=\"search\"]"

\* f'button[data-testid="{base}"], [data-testid="{base}"]'
css_selector(name) ==
    CASE DashedName(name) = "join-waitlist" ->
            "button[data-testid=\"join-waitlist\"], [data-testid=\"join-waitlist\"]"
      [] OTHER -> "button[data-testid=\"search\"], [data-testid=\"search\"]"

\* suggest_improved_step, body of the for loop: the copy of the failed step
\* as the strategy rewrites it
improve(failed_step, strategy) ==
    LET t == strategy.selector_type
        named == Truthy(failed_step.name)
    IN IF t = "role" /\ named
       THEN [failed_step EXCEPT !.role = IF Truthy(failed_step.role) THEN failed_step.role
                                          ELSE "button"]
       ELSE IF t = "data-testid" /\ named
       THEN [failed_step EXCEPT !.selector = data_testid_selector(failed_step.name)]
       ELSE IF t = "text" /\ named
       THEN [failed_step EXCEPT !.selector = None]
       ELSE IF t = "css" /\ named
       THEN [failed_step EXCEPT !.selector = css_selector(failed_step.name)]
       ELSE IF t = "placeholder"
       THEN [failed_step EXCEPT !.selector = "input[placeholder*='search' i], ..."]
       ELSE IF t = "role_searchbox"
       THEN [failed_step EXCEPT !.role = "searchbox", !.selector = None]
       ELSE IF t = "css_search"
       THEN [failed_step EXCEPT !.selector = "input[type='search'], ..., form input[name='search']"]
       ELSE IF t = "aria_label"
       THEN [failed_step EXCEPT !.selector = "input[aria-label*='search' i], ..."]
       ELSE failed_step

\* A rewritten copy returned whether or not it differs from the failed step.
differs_Always(improved, original) == TRUE

\* improved.selector != original_selector or improved.role != original_role
differs(improved, original) ==
    improved.selector # original.selector \/ improved.role # original.role

\* get_best_strategies(.., limit=1, ..)
suggest_limit == 1

\* suggest_improved_step(failed_step, failure_reason, website_pattern): the
\* step returned (NoStep for None) and _strategies afterwards
suggest_improved_step(strategies, failed_step, website_pattern) ==
    IF Falsy(failed_step.name) /\ Falsy(failed_step.selector)
    THEN [returned |-> NoStep, strategies |-> strategies, failed_step |-> failed_step]
    ELSE LET element_description == IF Truthy(failed_step.name) THEN failed_step.name
                                    ELSE failed_step.selector
             best == get_best_strategies(strategies, element_description, website_pattern,
                                         suggest_limit, failed_step)
             hits == {i \in 1..Len(best.returned) :
                        differs(improve(failed_step, best.returned[i]), failed_step)}
         IN [returned |-> IF hits = {} THEN NoStep
                          ELSE improve(failed_step,
                                       best.returned[CHOOSE i \in hits : \A h \in hits : i <= h]),
             strategies |-> best.strategies,
             \* improved is a new PlanStep; the argument keeps its fields
             failed_step |-> failed_step]

\* The steps that fail: a link known by role and name only, the same without
\* a role, a field known by selector only, a search box, a step with neither
\* name nor selector
FailedSteps ==
    {[PlanStep("click") EXCEPT !.role = "link", !.name = "Join waitlist"],
     [PlanStep("click") EXCEPT !.name = "Join waitlist"],
     [PlanStep("type") EXCEPT !.selector = "#q", !.value = "x"],
     [PlanStep("fill") EXCEPT !.name = "Search", !.selector = "#searchbox", !.value = "x"],
     [PlanStep("click") EXCEPT !.role = "button"]}

SuggestRecords ==
    IF sg_last = NoCall THEN 0 ELSE sg_last.records

\* improved = generator.suggest_improved_step(failed_step, reason)
Suggest ==
    /\ \E failed_step \in FailedSteps :
         LET r == suggest_improved_step(sg_strategies, failed_step, None)
         IN /\ sg_strategies' = r.strategies
            /\ sg_last' = [kind |-> "suggest", failed_step |-> r.failed_step,
                           given |-> failed_step, returned |-> r.returned,
                           candidates |-> r.strategies[cache_key(None,
                                              IF Truthy(failed_step.name) THEN failed_step.name
                                              ELSE failed_step.selector,
                                              step_key_of(failed_step))],
                           fresh |-> \A k \in CacheKeys : \A i \in 1..Len(sg_strategies[k]) :
                                        sg_strategies[k][i].usage_count = 0,
                           records |-> SuggestRecords]
    /\ UNCHANGED sg_returned
    /\ KeepOthers("strat")

\* generator.record_strategy_result(strategy, success, description, step=step)
\* for a strategy of the step that failed last
RecordForStep ==
    /\ sg_last # NoCall /\ sg_last.kind = "suggest"
    /\ SuggestRecords < MaxSuggestRecords
    /\ LET step == sg_last.failed_step
           description == IF Truthy(step.name) THEN step.name ELSE step.selector
           key == cache_key(None, description, step_key_of(step))
       IN /\ Truthy(description)
          /\ \E i \in 1..Len(sg_strategies[key]), success \in BOOLEAN :
               sg_strategies' = record_strategy_result(sg_strategies, sg_strategies[key][i],
                                                       success, description, None)
    /\ sg_last' = [kind |-> "record_for_step", records |-> SuggestRecords + 1]
    /\ UNCHANGED sg_returned
    /\ KeepOthers("strat")

SuggestNext == Suggest \/ RecordForStep

SpecSuggest == StratInit /\ [][SuggestNext]_vars

\* C21: suggest_improved_step never mutates the failed step it is given; a
\* step it returns equals the failed step in action, target, name, value,
\* start_selector, end_selector, file_path and option_value and differs from it
\* in selector or role; when no such difference can be produced it returns None.
C21_SuggestionRewritesHintsOnly ==
    (sg_last # NoCall /\ sg_last.kind = "suggest") =>
        /\ sg_last.given = sg_last.failed_step
        /\ sg_last.returned # NoStep =>
             /\ \A f \in {"action", "target", "name", "value", "start_selector",
                          "end_selector", "file_path", "option_value"} :
                    sg_last.returned[f] = sg_last.failed_step[f]
             /\ \/ sg_last.returned.selector # sg_last.failed_step.selector
                \/ sg_last.returned.role # sg_last.failed_step.role
        /\ (Falsy(sg_last.given.name) /\ Falsy(sg_last.given.selector))
             => sg_last.returned = NoStep
        /\ (\A i \in 1..Len(sg_last.candidates) :
               LET st == improve(sg_last.given, sg_last.candidates[i])
               IN st.selector = sg_last.given.selector /\ st.role = sg_last.given.role)
             => sg_last.returned = NoStep

\* a step was returned that differs from the failed step in its selector only
C21_Witness ==
    /\ sg_last # NoCall /\ sg_last.kind = "suggest"
    /\ sg_last.returned # NoStep
    /\ sg_last.returned.selector # sg_last.failed_step.selector
    /\ sg_last.returned.role = sg_last.failed_step.role
    /\ sg_last.failed_step.name = "Join waitlist"

\* no strategy of the failed step can change its selector or role, although it
\* has a selector, and None came back
C21_WitnessNone ==
    /\ sg_last # NoCall /\ sg_last.kind = "suggest"
    /\ Truthy(sg_last.given.selector)
    /\ Len(sg_last.candidates) > 0
    /\ sg_last.returned = NoStep

\* C22: for a failed click step identified only by a role and an accessible
\* name (role link, name Join waitlist, no selector) and a strategy store with
\* no recorded results, suggest_improved_step returns a step whose selector is
\* the data-testid rewrite of the name, [data-testid="join-waitlist"].
C22_DataTestidRewriteForNamedLink ==
    (/\ sg_last # NoCall /\ sg_last.kind = "suggest"
     /\ sg_last.fresh
     /\ sg_last.failed_step = [PlanStep("click") EXCEPT !.role = "link",
                                                        !.name = "Join waitlist"])
        => /\ sg_last.returned # NoStep
           /\ sg_last.returned.selector = "[data-testid=\"join-waitlist\"]"

(***************************************************************************)
(* Metrics exporter guard: core/metrics.py                                 *)
(***************************************************************************)
MaxEnsureCalls == 2

MetricsThreads == {"t1", "t2"}

\* prometheus_port as configured (9109), and a port no socket can bind
Ports == {9109, 70000}

\* start_http_server(port): the server starts, the bind fails with an OSError
\* (address in use), or the bind raises OverflowError, which is not an OSError
\* ("bind(): port must be 0-65535")
start_http_server(port) ==
    IF port > 65535 THEN {"OverflowError"} ELSE {"started", "OSError"}

ThreadIdle(calls) == [at |-> "idle", port |-> 0, calls |-> calls, raised |-> "None"]

MetricsInit ==
    /\ ms_started = FALSE
    /\ ms_lock = None
    /\ ms_thread = [t \in MetricsThreads |-> ThreadIdle(0)]
    /\ ms_starts = <<>>
    /\ ConIdle /\ GateIdle /\ ObsIdle /\ ArchIdle /\ RunIdle /\ NewIdle("met")

\* ensure_metrics_server(port) is called
EnsureCall(t) ==
    /\ ms_thread[t].at = "idle"
    /\ ms_thread[t].calls < MaxEnsureCalls
    /\ \E port \in Ports :
         ms_thread' = [ms_thread EXCEPT ![t] = [at |-> "check", port |-> port,
                                                calls |-> @.calls + 1, raised |-> "None"]]
    /\ UNCHANGED <<ms_started, ms_lock, ms_starts>>
    /\ KeepOthers("met")

\* if _METRICS_SERVER_STARTED: return
EnsureCheck(t) ==
    /\ ms_thread[t].at = "check"
    /\ ms_thread' = [ms_thread EXCEPT ![t].at = IF ms_started THEN "idle" ELSE "acquire"]
    /\ UNCHANGED <<ms_started, ms_lock, ms_starts>>
    /\ KeepOthers("met")

\* with _METRICS_LOCK:
EnsureAcquire(t) ==
    /\ ms_thread[t].at = "acquire"
    /\ ms_lock = None
    /\ ms_lock' = t
    /\ ms_thread' = [ms_thread EXCEPT ![t].at = "locked"]
    /\ UNCHANGED <<ms_started, ms_starts>>
    /\ KeepOthers("met")

\* the body of the with block: the second test of the flag, the start, the
\* flag set after a start and after an OSError; any other exception leaves
\* the block, releasing the lock, and reaches the caller
EnsureLocked(t) ==
    /\ ms_thread[t].at = "locked"
    /\ ms_lock = t
    /\ ms_lock' = None
    /\ IF ms_started
       THEN /\ ms_thread' = [ms_thread EXCEPT ![t].at = "idle"]
            /\ UNCHANGED <<ms_started, ms_starts>>
       ELSE \E result \in start_http_server(ms_thread[t].port) :
              /\ ms_starts' = Append(ms_starts, [thread |-> t, port |-> ms_thread[t].port,
                                                  result |-> result])
              /\ ms_started' = (result \in {"started", "OSError"})
              /\ ms_thread' = [ms_thread EXCEPT ![t].at = "idle",
                                                ![t].raised = IF result \in {"started", "OSError"}
                                                              THEN "None" ELSE result]
    /\ KeepOthers("met")

Ensure_call == \E t \in MetricsThreads : EnsureCall(t)
Ensure_check == \E t \in MetricsThreads : EnsureCheck(t)
Ensure_acquire == \E t \in MetricsThreads : EnsureAcquire(t)
Ensure_locked == \E t \in MetricsThreads : EnsureLocked(t)

MetricsNext == Ensure_call \/ Ensure_check \/ Ensure_acquire \/ Ensure_locked

SpecMetrics == MetricsInit /\ [][MetricsNext]_vars

C23_AtMostOnceUnlessOtherError ==
    (\A i \in 1..Len(ms_starts) : ms_starts[i].result \in {"started", "OSError"})
        => Len(ms_starts) <= 1

\* Two threads are never inside the with block together, and the flag is set
\* only after a start was tried.
C23_LockIsMutex ==
    /\ Cardinality({t \in MetricsThreads : ms_thread[t].at = "locked"}) <= 1
    /\ ms_started => Len(ms_starts) >= 1

(***************************************************************************)
(* Planner providers: llm/openai_provider.py, llm/anthropic_provider.py,   *)
(* llm/local_provider.py, llm/utils.py                                     *)
(***************************************************************************)
\* stop_after_attempt(3)
stop_after_attempt == 3

Providers == {"openai", "anthropic", "local"}

\* context: with a start_url, or without the key
Contexts == {[start_url |-> "https://app.test"], [start_url |-> "absent"]}

\* context.get("start_url", "https://example.com")
context_start_url(context) ==
    IF context.start_url = "absent" THEN "https://example.com" ELSE context.start_url

\* The text a model answers with
Contents ==
    {"", "I cannot help", "{}", "{\"steps\": []}", "{\"steps\": [{\"action\": \"click\"}]}",
     "[1, 2]", "{\"steps\": null}", "{\"steps\": [{\"bogus\": 1}]}"}

\* What one LLM call can meet, per provider: an exception of the client, or
\* a response with some content
CallOutcomes(provider) ==
    [kind : {"content"}, content : Contents] \cup
    [kind : {"error"},
     content : CASE provider = "openai" ->
                      {"asyncio.TimeoutError", "RateLimitError", "APIError 500", "APIError 400",
                       "no choices"}
                 [] provider = "anthropic" ->
                      {"APITimeoutError", "RateLimitError", "APIStatusError 500"}
                 [] OTHER ->
                      {"asyncio.TimeoutError", "ConnectionError", "HTTPStatusError 429",
                       "HTTPStatusError 500", "httpx.ConnectError"}]

\* extract_json_from_content(content)
extract_json_from_content(content) ==
    CASE content = "" -> [kind |-> "ValueError"]
      [] content = "I cannot help" -> [kind |-> "ValueError"]
      [] content = "[1, 2]" -> [kind |-> "list"]
      [] content = "{}" -> [kind |-> "dict", steps |-> "missing"]
      [] content = "{\"steps\": []}" -> [kind |-> "dict", steps |-> "empty"]
      [] content = "{\"steps\": null}" -> [kind |-> "dict", steps |-> "null"]
      [] content = "{\"steps\": [{\"bogus\": 1}]}" -> [kind |-> "dict", steps |-> "bogus"]
      [] OTHER -> [kind |-> "dict", steps |-> "click"]

ExecutionPlan(steps) == [kind |-> "plan", steps |-> steps]
Raised(error) == [kind |-> "raised", error |-> error]

\* steps = [PlanStep(**s) for s in data.get("steps", [])]
steps_of(data) ==
    CASE data.kind = "list" -> Raised("AttributeError")
      [] data.steps \in {"missing", "empty"} -> ExecutionPlan(<<>>)
      [] data.steps = "click" -> ExecutionPlan(<<PlanStep("click")>>)
      [] OTHER -> Raised("TypeError")

\* ExecutionPlan(steps=[PlanStep(action="navigate", target=context.get("start_url", ...))])
fallback_plan(context) ==
    ExecutionPlan(<<[PlanStep("navigate") EXCEPT !.target = context_start_url(context)]>>)

\* A plan with no steps handed back as it is.
local_nonempty_Keep(plan, context) == plan

\* if not steps: steps = [PlanStep(action="navigate", ...)]
local_nonempty(plan, context) ==
    IF plan.steps = <<>> THEN fallback_plan(context) ELSE plan

\* LocalPlanner.generate_plan, one attempt
local_generate_plan(context, met) ==
    IF met.kind = "error"
    THEN CASE met.content = "asyncio.TimeoutError" -> Raised("LLMTimeoutError")
           [] met.content = "ConnectionError" -> Raised("LLMAPIError")
           [] OTHER -> fallback_plan(context)
    ELSE LET data == extract_json_from_content(met.content)
         IN IF data.kind = "ValueError" THEN fallback_plan(context)
            ELSE IF steps_of(data).kind = "raised" THEN fallback_plan(context)
            ELSE local_nonempty(steps_of(data), context)

\* OpenAIPlanner.generate_plan, one attempt
openai_generate_plan(context, met) ==
    IF met.kind = "error"
    THEN CASE met.content = "asyncio.TimeoutError" -> Raised("LLMTimeoutError")
           [] met.content = "RateLimitError" -> Raised("LLMRateLimitError")
           [] OTHER -> Raised("LLMAPIError")
    ELSE LET content == IF met.content = "" THEN "{}" ELSE met.content
             data == extract_json_from_content(content)
         IN IF data.kind = "ValueError" THEN Raised("LLMAPIError")
            ELSE steps_of(data)

\* AnthropicPlanner.generate_plan: no retry decorator, no except clause
anthropic_generate_plan(context, met) ==
    IF met.kind = "error"
    THEN Raised(met.content)
    ELSE IF met.content \in {"", "I cannot help"} THEN Raised("JSONDecodeError")
    ELSE steps_of(extract_json_from_content(met.content))

\* retry_if_exception_type(...) of the provider's decorator
retry_types(provider) ==
    CASE provider = "openai" -> {"LLMTimeoutError", "LLMRateLimitError"}
      [] provider = "local" -> {"LLMTimeoutError", "ConnectionError"}
      [] OTHER -> {}

\* @retry(stop=stop_after_attempt(3), retry=..., reraise=True): after an
\* attempt, call again or hand the result to the caller
Retrying(provider, result, calls) ==
    /\ result.kind = "raised"
    /\ result.error \in retry_types(provider)
    /\ calls < stop_after_attempt

ProvidersInit ==
    /\ llm_req = NoCall
    /\ llm_hist = <<>>
    /\ llm_result = NoCall
    /\ ConIdle /\ GateIdle /\ ObsIdle /\ ArchIdle /\ RunIdle /\ NewIdle("llm")

\* plan = await planner.generate_plan(task, context)
Generate_plan ==
    /\ llm_req.kind \in {"none", "done"}
    /\ \E provider \in Providers, context \in Contexts :
         llm_req' = [kind |-> "calling", provider |-> provider, context |-> context]
    /\ llm_hist' = <<>>
    /\ llm_result' = NoCall
    /\ KeepOthers("llm")

ProviderAttempt(provider, outcome_of(_, _)) ==
    /\ llm_req.kind = "calling"
    /\ llm_req.provider = provider
    /\ \E met \in CallOutcomes(provider) :
         LET result == outcome_of(llm_req.context, met)
         IN /\ llm_hist' = Append(llm_hist, met)
            /\ IF Retrying(provider, result, Len(llm_hist) + 1)
               THEN UNCHANGED <<llm_req, llm_result>>
               ELSE /\ llm_req' = [llm_req EXCEPT !.kind = "done"]
                    /\ llm_result' = result
    /\ KeepOthers("llm")

OpenAI_attempt ==
    /\ llm_req.kind = "calling"
    /\ ProviderAttempt("openai", openai_generate_plan)

Anthropic_attempt ==
    /\ llm_req.kind = "calling"
    /\ ProviderAttempt("anthropic", anthropic_generate_plan)

Local_attempt ==
    /\ llm_req.kind = "calling"
    /\ ProviderAttempt("local", local_generate_plan)

ProvidersNext == Generate_plan \/ OpenAI_attempt \/ Anthropic_attempt \/ Local_attempt

SpecProviders == ProvidersInit /\ [][ProvidersNext]_vars

\* An LLM call that met a timeout or a rate-limit error
TimeoutOrRateLimit(met) ==
    /\ met.kind = "error"
    /\ met.content \in {"asyncio.TimeoutError", "APITimeoutError", "RateLimitError",
                        "HTTPStatusError 429"}

\* C24: for every planner provider, a plan request that hits an LLM timeout or
\* rate-limit error is retried until it succeeds or 3 LLM calls in total have
\* been made, after which the error is re-raised; no other error causes
\* another LLM call within the provider.
C24_RetryOnlyTimeoutAndRateLimit ==
    /\ llm_req.kind = "done" =>
         /\ TimeoutOrRateLimit(llm_hist[Len(llm_hist)])
              => Len(llm_hist) = stop_after_attempt /\ llm_result.kind = "raised"
         /\ \A i \in 1..(Len(llm_hist) - 1) : TimeoutOrRateLimit(llm_hist[i])
    /\ Len(llm_hist) <= stop_after_attempt

\* C24 for OpenAIPlanner alone, which the code provides
C24_OpenAIRetries ==
    (llm_req.kind = "done" /\ llm_req.provider = "openai")
        => C24_RetryOnlyTimeoutAndRateLimit

\* C25: whenever LocalPlanner.generate_plan returns, the plan has at least one
\* step; when the response cannot be parsed as JSON, parses to no steps, or the
\* call fails with anything other than a timeout or connection error, the
\* returned plan is exactly the single step navigate(start_url).
C25_LocalFallbackPlan ==
    (llm_req.kind = "done" /\ llm_req.provider = "local") =>
        LET met == llm_hist[Len(llm_hist)]
            navigate == <<[PlanStep("navigate") EXCEPT
                             !.target = context_start_url(llm_req.context)]>>
        IN /\ llm_result.kind = "plan" => Len(llm_result.steps) >= 1
           /\ (met.kind = "content" /\ met.content \in {"", "I cannot help", "{}",
                                                         "{\"steps\": []}"})
                => llm_result = ExecutionPlan(navigate)
           /\ (met.kind = "error" /\ met.content \notin {"asyncio.TimeoutError",
                                                          "ConnectionError"})
                => llm_result = ExecutionPlan(navigate)

\* the model answered {"steps": []} after a timed-out call, and the single
\* navigate step came back
C25_Witness ==
    /\ llm_req.kind = "done" /\ llm_req.provider = "local"
    /\ Len(llm_hist) = 2
    /\ llm_hist[2] = [kind |-> "content", content |-> "{\"steps\": []}"]
    /\ llm_req.context.start_url = "https://app.test"
    /\ llm_result = ExecutionPlan(<<[PlanStep("navigate") EXCEPT !.target = "https://app.test"]>>)

(***************************************************************************)
(* Locator resolution: agents/navigator_pro.py                             *)
(***************************************************************************)
MaxRoleCandidates == 2

\* the order of _resolve_locator_with_retry
LocatorStrategies == <<"role", "data-testid", "selector", "text", "xpath">>

\* What a candidate locator matches: nothing, one hidden element, one visible
\* element, or several of which the first is visible
Matches == {"none", "hidden", "visible", "many"}

CandidatesOf(strategy) == IF strategy = "role" THEN MaxRoleCandidates ELSE 1

Pages ==
    {p \in [{"role", "data-testid", "selector", "text", "xpath"} ->
                UNION {[1..n -> Matches] : n \in 1..MaxRoleCandidates}] :
        \A st \in DOMAIN p : Len(p[st]) = CandidatesOf(st)}

\* await locator.count()
count(match) ==
    CASE match = "none" -> 0
      [] match = "many" -> 2
      [] OTHER -> 1

\* _ensure_visible(candidate, strategy): wait_for(state="visible") returned
ensure_visible(match) == match \in {"visible", "many"}

\* _first_matching_locator(locators, strategy): the index of the candidate
\* returned, 0 for None
first_matching_locator(locators) ==
    LET ok == {i \in 1..Len(locators) : count(locators[i]) > 0 /\ ensure_visible(locators[i])}
    IN IF ok = {} THEN 0 ELSE CHOOSE i \in ok : \A j \in ok : i <= j

\* the candidates a strategy gets for the step: the step fields it needs
locators_for(strategy, step, page) ==
    LET variants == Truthy(step.name)
    IN CASE strategy = "role" ->
              IF Truthy(step.role) /\ variants THEN page["role"] ELSE <<>>
         [] strategy = "selector" ->
              IF Truthy(step.selector) THEN page["selector"] ELSE <<>>
         [] OTHER -> IF variants THEN page[strategy] ELSE <<>>

Locator(strategy, index, match) ==
    [kind |-> "locator", strategy |-> strategy, index |-> index,
     first |-> IF count(match) > 1 THEN "True" ELSE "False"]

\* NavigatorPro._resolve_locator_with_retry(step) as written
resolve_locator_with_retry(step, page) ==
    LET hit(k) == first_matching_locator(locators_for(LocatorStrategies[k], step, page))
        hits == {k \in 1..Len(LocatorStrategies) : hit(k) > 0}
    IN IF hits = {}
       THEN [kind |-> "raised", error |-> "ValueError"]
       ELSE LET k == CHOOSE h \in hits : \A j \in hits : h <= j
            IN Locator(LocatorStrategies[k], hit(k),
                       locators_for(LocatorStrategies[k], step, page)[hit(k)])

\* import parallax.agents.navigator_pro: line 256 of the module opens a string
\* literal that is never closed ('[role="checkbox"]"],), so compiling the
\* module raises SyntaxError and no NavigatorPro method can be called
navigator_pro_import == "SyntaxError"

\* navigator = NavigatorPro(...); await navigator._resolve_locator_with_retry(step)
call_resolve_locator(step, page) ==
    IF navigator_pro_import = "SyntaxError"
    THEN [kind |-> "raised", error |-> "SyntaxError"]
    ELSE resolve_locator_with_retry(step, page)

LocatorSteps ==
    {[PlanStep("click") EXCEPT !.role = r, !.name = n, !.selector = sel] :
        r \in {None, "link"}, n \in {None, "Join waitlist"}, sel \in {None, "#join"}}

LocatorInit ==
    /\ lr_step = NoCall
    /\ lr_page \in Pages
    /\ lr_last = NoCall
    /\ ConIdle /\ GateIdle /\ ObsIdle /\ ArchIdle /\ RunIdle /\ NewIdle("loc")

\* locator = await self._resolve_locator_with_retry(step)
Resolve_locator ==
    /\ \E step \in LocatorSteps :
         /\ lr_step' = step
         /\ lr_last' = call_resolve_locator(step, lr_page)
    /\ UNCHANGED lr_page
    /\ KeepOthers("loc")

\* the page changes between two steps
PageChanges ==
    /\ lr_last # NoCall
    /\ \E st \in DOMAIN lr_page, m \in Matches :
         lr_page' = [lr_page EXCEPT ![st][1] = m]
    /\ lr_step' = NoCall
    /\ lr_last' = NoCall
    /\ KeepOthers("loc")

LocatorNext == Resolve_locator \/ PageChanges

SpecLocator == LocatorInit /\ [][LocatorNext]_vars

\* The candidates of the step that qualify, as <<strategy index, candidate index>>
Qualifying(step, page) ==
    {<<k, i>> \in (1..Len(LocatorStrategies)) \X (1..MaxRoleCandidates) :
        /\ i <= Len(locators_for(LocatorStrategies[k], step, page))
        /\ locators_for(LocatorStrategies[k], step, page)[i] \in {"visible", "many"}}

\* result is what the claim asks of a resolution of step on page
ResolvedAsClaimed(step, page, result) ==
    LET q == Qualifying(step, page)
    IN IF q = {}
       THEN result.kind = "raised"
       ELSE LET best == CHOOSE c \in q : \A d \in q :
                           c[1] < d[1] \/ (c[1] = d[1] /\ c[2] <= d[2])
            IN /\ result.kind = "locator"
               /\ result.strategy = LocatorStrategies[best[1]]
               /\ result.index = best[2]
               /\ result.first = "True"
                    <=> locators_for(LocatorStrategies[best[1]], step, page)[best[2]] = "many"

\* C26: the resolver walks role, data-testid, selector, text, xpath (each only
\* when the step field it needs is set) and returns the first candidate, in
\* that order, with count > 0 that passes the visibility check (its first
\* element when count > 1); a candidate with count 0 or a hidden element is
\* never returned, and when no candidate qualifies the resolver raises.
C26_FirstVisibleCandidateInOrder ==
    lr_last # NoCall => ResolvedAsClaimed(lr_step, lr_page, lr_last)

\* The same of the method body alone, were the module to load
C26_BodyAsWritten ==
    lr_last # NoCall =>
        ResolvedAsClaimed(lr_step, lr_page, resolve_locator_with_retry(lr_step, lr_page))

(***************************************************************************)
(* Heuristic significance: observer/detectors.py                           *)
(***************************************************************************)
MaxRoleDiff == 3

\* The URLs of captured pages; "" for a page without one
SigUrls ==
    {"", "https://app.test/", "https://app.test/items?page=1",
     "https://app.test/items?page=2", "https://app.test/about"}

\* urlparse(url).path or "/"
url_path(url) ==
    CASE url \in {"https://app.test/items?page=1", "https://app.test/items?page=2"} -> "/items"
      [] url = "https://app.test/about" -> "/about"
      [] OTHER -> "/"

\* role_diff in tenths, or None; confidences are in hundredths
NoRoleDiff == [kind |-> "None"]

RoleDiffs == {NoRoleDiff} \cup {[kind |-> "float", tenths |-> n] : n \in 1..MaxRoleDiff}

SigInputs ==
    [url : SigUrls, has_modal : BOOLEAN, has_toast : BOOLEAN,
     form_validity : {"None", "True", "False"}, role_diff : RoleDiffs, has_loader : BOOLEAN]

MaxOf2(a, b) == IF a >= b THEN a ELSE b

\* if url and url != previous_url
navigated(url, previous_url) ==
    url # "" /\ url # previous_url

\* Detectors._determine_significance(url, has_modal, has_toast, form_validity,
\* role_diff, has_loader); reasoning is the list before "; ".join
determine_significance(previous_url, in) ==
    LET s1 == IF navigated(in.url, previous_url)
              THEN [significance |-> "supporting", confidence |-> 65,
                    reasoning |-> <<"Navigated to">>]
              ELSE [significance |-> "optional", confidence |-> 50, reasoning |-> <<>>]
        s2 == IF in.has_modal \/ in.has_toast
              THEN [significance |-> "critical", confidence |-> 85,
                    reasoning |-> s1.reasoning
                          \o (IF in.has_modal THEN <<"Modal dialog visible">> ELSE <<>>)
                          \o (IF in.has_toast THEN <<"Toast/alert detected">> ELSE <<>>)]
              ELSE IF in.form_validity = "True" /\ ~in.has_loader
              THEN [significance |-> "supporting", confidence |-> 70,
                    reasoning |-> Append(s1.reasoning, "Form validated successfully")]
              ELSE IF in.has_loader
              THEN [significance |-> "supporting", confidence |-> 60,
                    reasoning |-> Append(s1.reasoning, "Loading indicator detected")]
              ELSE s1
        s3 == IF in.role_diff # NoRoleDiff /\ in.role_diff.tenths > 2 /\ s2.significance # "critical"
              THEN [significance |-> "supporting", confidence |-> MaxOf2(s2.confidence, 65),
                    reasoning |-> Append(s2.reasoning, "Significant role-tree change")]
              ELSE s2
    IN [s3 EXCEPT !.reasoning = IF s3.reasoning = <<>> THEN <<"Stable navigation state">>
                                ELSE s3.reasoning]

SignificanceInit ==
    /\ sig_previous_url = None
    /\ sig_in \in SigInputs
    /\ sig_out = NoCall
    /\ ConIdle /\ GateIdle /\ ObsIdle /\ ArchIdle /\ RunIdle /\ NewIdle("sig")

\* metadata.update(self._determine_significance(...))
Determine_significance ==
    /\ sig_in # NoCall
    /\ sig_out' = [kind |-> "significance", in |-> sig_in, previous_url |-> sig_previous_url,
                   out |-> determine_significance(sig_previous_url, sig_in)]
    /\ sig_in' = NoCall
    /\ UNCHANGED sig_previous_url
    /\ KeepOthers("sig")

\* self._previous_state = {...}: the state just captured becomes the previous
\* one, and the next page is looked at
NextCapture ==
    /\ sig_in = NoCall
    /\ sig_previous_url' = sig_out.in.url
    /\ sig_in' \in SigInputs
    /\ sig_out' = NoCall
    /\ KeepOthers("sig")

SignificanceNext == Determine_significance \/ NextCapture

SpecSignificance == SignificanceInit /\ [][SignificanceNext]_vars

\* the URL changed from the previous state to a new path segment; the first
\* URL seen counts as a change
NewPathSegment(url, previous_url) ==
    /\ url # ""
    /\ previous_url \in {None, ""} \/ url_path(url) # url_path(previous_url)

\* C27: the significance is critical iff has_modal or has_toast; otherwise
\* supporting iff the URL changed from the previous state to a new path
\* segment, or form_validity is true with no loader, or a loader is present, or
\* role_diff > 0.2; otherwise optional; it is one of these three values with a
\* confidence in [0,1] and a non-empty reasoning, and a role-diff upgrade never
\* lowers a critical classification.
C27_SignificanceTable ==
    sig_out # NoCall =>
        LET in == sig_out.in
            out == sig_out.out
            critical == in.has_modal \/ in.has_toast
            supporting ==
                \/ NewPathSegment(in.url, sig_out.previous_url)
                \/ (in.form_validity = "True" /\ ~in.has_loader)
                \/ in.has_loader
                \/ (in.role_diff # NoRoleDiff /\ in.role_diff.tenths > 2)
        IN /\ out.significance \in {"critical", "supporting", "optional"}
           /\ out.significance = "critical" <=> critical
           /\ ~critical => (out.significance = "supporting" <=> supporting)
           /\ out.confidence \in 0..100
           /\ out.reasoning # <<>>

\* The table of C27 with "the URL differs from the previous state's URL, or
\* there is no previous state" in the place of the new path segment: what the
\* code computes.
C27_TableWithAnyUrlChange ==
    sig_out # NoCall =>
        LET in == sig_out.in
            out == sig_out.out
            critical == in.has_modal \/ in.has_toast
            supporting ==
                \/ (in.url # "" /\ in.url # sig_out.previous_url)
                \/ (in.form_validity = "True" /\ ~in.has_loader)
                \/ in.has_loader
                \/ (in.role_diff # NoRoleDiff /\ in.role_diff.tenths > 2)
        IN /\ out.significance = "critical" <=> critical
           /\ ~critical => (out.significance = "supporting" <=> supporting)
           /\ ~critical /\ ~supporting => out.significance = "optional"
           /\ out.confidence \in 50..85
           /\ out.reasoning # <<>>

(***************************************************************************)
(* Plan, then site overrides, then execution: runner/cli.py _run_attempt,  *)
(* web/server.py run_attempt                                               *)
(***************************************************************************)
MaxFlowSteps == 2

\* The steps a provider returns here: a typed search without and with a
\* selector, a click known by its name, a navigation
FlowSteps ==
    {Hinted("type", None, "Search", "textbox"), Hinted("type", "#searchInput", "Search", "textbox"),
     Hinted("click", None, "Images", "link"), [PlanStep("navigate") EXCEPT !.target = "x"]}

\* The overrides applied to the provider's plan before the constitution sees it.
plan_and_override_OverridesFirst(llm_plan, start_url) ==
    LET tuned == apply_site_overrides(llm_plan, start_url)
        g == Interpreter_plan(tuned)
    IN IF g.result.kind = "ConstitutionViolation"
       THEN [validated |-> <<tuned>>, overridden |-> <<llm_plan>>,
             raised |-> TRUE, plan |-> tuned]
       ELSE [validated |-> <<tuned>>, overridden |-> <<llm_plan>>,
             raised |-> FALSE, plan |-> tuned]

\* plan = await interpreter.plan(task, plan_context)
\* plan = apply_site_overrides(plan, start_url_current)
\* with the plans the constitution and the overrides were given
plan_and_override(llm_plan, start_url) ==
    LET g == Interpreter_plan(llm_plan)
    IN IF g.result.kind = "ConstitutionViolation"
       THEN [validated |-> <<llm_plan>>, overridden |-> <<>>,
             raised |-> TRUE, plan |-> llm_plan]
       ELSE [validated |-> <<llm_plan>>, overridden |-> <<llm_plan>>,
             raised |-> FALSE, plan |-> apply_site_overrides(llm_plan, start_url)]

FlowInit ==
    /\ pl_plan \in PlansOf(FlowSteps, MaxFlowSteps)
    /\ pl_start_url \in {"https://www.google.com", "https://en.wikipedia.org/wiki/Main_Page",
                         "https://example.com"}
    /\ pl_last = NoCall
    /\ ConIdle /\ GateIdle /\ ObsIdle /\ ArchIdle /\ RunIdle /\ NewIdle("plan")

\* the planning block of the attempt
Plan_and_override ==
    /\ pl_last = NoCall
    /\ LET r == plan_and_override(pl_plan, pl_start_url)
       IN /\ pl_plan' = r.plan
          /\ pl_last' = [kind |-> IF r.raised THEN "rejected" ELSE "planned",
                         llm_plan |-> pl_plan, validated |-> r.validated,
                         overridden |-> r.overridden, executed |-> <<>>]
    /\ UNCHANGED pl_start_url
    /\ KeepOthers("plan")

\* await navigator.execute(plan, action_budget=...): the plan in hand is run;
\* nothing between the overrides and this call validates it
Execute_plan ==
    /\ pl_last # NoCall /\ pl_last.kind = "planned"
    /\ pl_last' = [pl_last EXCEPT !.kind = "executed", !.executed = <<pl_plan>>]
    /\ UNCHANGED <<pl_plan, pl_start_url>>
    /\ KeepOthers("plan")

\* the ConstitutionViolation of the planner reaches the handler of the attempt
Plan_rejected ==
    /\ pl_last # NoCall /\ pl_last.kind = "rejected"
    /\ pl_last' = [pl_last EXCEPT !.kind = "handled"]
    /\ UNCHANGED <<pl_plan, pl_start_url>>
    /\ KeepOthers("plan")

FlowNext == Plan_and_override \/ Execute_plan \/ Plan_rejected

SpecFlow == FlowInit /\ [][FlowNext]_vars

\* C28: within an attempt the Planner constitution is evaluated on the plan
\* exactly as the LLM returned it, before site overrides are applied: a plan
\* rejected by the constitution is never passed to apply_site_overrides, and
\* the plan as rewritten by the overrides is executed without being validated
\* again.
C28_ConstitutionBeforeOverrides ==
    pl_last # NoCall =>
        /\ pl_last.validated = <<pl_last.llm_plan>>
        /\ pl_last.kind \in {"rejected", "handled"}
             <=> Interpreter_plan(pl_last.llm_plan).result.kind = "ConstitutionViolation"
        /\ pl_last.kind \in {"rejected", "handled"}
             => pl_last.overridden = <<>> /\ pl_last.executed = <<>>
        /\ pl_last.kind \in {"planned", "executed"}
             => pl_last.overridden = <<pl_last.llm_plan>>
        /\ pl_last.kind = "executed"
             => pl_last.executed = <<apply_site_overrides(pl_last.llm_plan, pl_start_url)>>

\* a plan the overrides rewrote was executed, validated once, as generated
C28_Witness ==
    /\ pl_last # NoCall /\ pl_last.kind = "executed"
    /\ pl_last.executed # <<pl_last.llm_plan>>
    /\ pl_last.validated = <<pl_last.llm_plan>>

\* a plan was rejected for a type step without selector although the
\* overrides would have supplied the selector
C28_WitnessNotRepaired ==
    /\ pl_last # NoCall /\ pl_last.kind = "handled"
    /\ Interpreter_plan(apply_site_overrides(pl_last.llm_plan, pl_start_url)).result.kind
         = "returned"
    /\ pl_last.overridden = <<>>

====
